---------------------------- MODULE Spec2Model ----------------------------
(***************************************************************************)
(* Model of the matrix keyboard MIDI controller:                           *)
(*   src/app/midi.c                         MIDI encoder                   *)
(*   src/app/main.c                         debounce, change detection     *)
(*   src/drivers/MatrixKeyboard/...         matrix scan                    *)
(*   src/drivers/MCP23017/...               GPIO expander driver           *)
(*                                                                         *)
(* Conventions.  A uint8_t is an integer 0..255.  A uint32_t bitmap is the *)
(* set of the positions (0..31) of its set bits: x | (1<<i) is x \cup {i}, *)
(* x & ~(1<<i) is x \ {i}, x ^ y is the symmetric difference.              *)
(***************************************************************************)
EXTENDS Integers, Sequences, FiniteSets, TLC

VARIABLES
    midi_initialized,   \* midi.c:23       static bool midi_initialized
    uart_tx,            \* bytes handed to BSP_UART_putc by the last operation
    call,               \* the operation that ran last, with its arguments
    pc,                 \* main.c:95-147   "boot" before the main loop, "loop" in it
    shift_wraps,        \* the build's result of 1UL << i for i >= 32 (undefined)
    ic,                 \* stm32g4_mcp23017.c:179  MCP23017_ic[]
    regs,               \* the expander's register file (device side)
    kb_initialized,     \* stm32g4_matrix_keyboard.c:25  static bool initialized
    keyboard_chip_id,   \* stm32g4_matrix_keyboard.c:26
    keyboard_state,     \* main.c:89       KeyboardState_t keyboard_state
    raw_state,          \* main.c:233      the bitmap read_all returned last
    closed,             \* the switches that were closed during the last scan
    fault,              \* the bus fault that was injected into the last operation
    run,                \* observer: length of each key's current disagreement streak
    prev_run,           \* observer: run as it was before the last scan
    sounding,           \* observer: the notes whose last message on the
                        \* transport was a Note On
    ret,                \* the value the last operation returned
    bus,                \* the bus transactions the last operation issued, in order
    failed              \* observer: per chip, the failed bus transactions of its
                        \* register operations since add or resetErrorCount

vars == <<midi_initialized, uart_tx, call, pc, shift_wraps, ic, regs,
          kb_initialized, keyboard_chip_id, keyboard_state, raw_state,
          closed, fault, run, prev_run, sounding, ret, bus, failed>>

midiVars == <<midi_initialized, uart_tx, call>>
kbdVars == <<pc, shift_wraps, ic, regs, kb_initialized, keyboard_chip_id,
             keyboard_state, raw_state, closed, fault, run, prev_run,
             sounding>>
apiVars == <<ret, bus, failed>>

-----------------------------------------------------------------------------
(* Bit operations on unsigned integers of a given width.                    *)

RECURSIVE BitAnd(_, _, _)
BitAnd(a, b, w) ==
    IF w = 0 THEN 0
    ELSE (a % 2) * (b % 2) + 2 * BitAnd(a \div 2, b \div 2, w - 1)

RECURSIVE BitOr(_, _, _)
BitOr(a, b, w) ==
    IF w = 0 THEN 0
    ELSE (IF (a % 2) + (b % 2) > 0 THEN 1 ELSE 0)
         + 2 * BitOr(a \div 2, b \div 2, w - 1)

\* ~x on a uint8_t
Not8(x) == 255 - x

\* a local variable of the code: e is computed once and named in F
With(e, F(_)) == F(e)

\* the value a C integer has after conversion to uint8_t / uint16_t
ToU8(x) == x % 256
ToU16(x) == x % 65536

-----------------------------------------------------------------------------
(* midi.h: status bytes and limits.                                         *)

MIDI_NOTE_OFF == 128
MIDI_NOTE_ON == 144
MIDI_CONTROL_CHANGE == 176
MIDI_PROGRAM_CHANGE == 192
MIDI_PITCH_BEND == 224
MIDI_CC_ALL_NOTES_OFF == 123

\* a uint8_t* argument: a buffer of bytes, or the null pointer
Buf(bytes) == [null |-> FALSE, bytes |-> bytes]
NULL == [null |-> TRUE, bytes |-> << >>]

\* MIDI_send_raw sending the whole buffer whatever length says
MIDI_send_raw_WholeBuffer(init, data, length) ==
    IF ~init \/ data = NULL \/ length = 0
    THEN << >>
    ELSE data.bytes

(* midi.c:44-54.  The bytes BSP_UART_putc receives, in order; data[i] of    *)
(* the code is data.bytes[i+1].                                             *)
MIDI_send_raw(init, data, length) ==
    IF ~init \/ data = NULL \/ length = 0
    THEN << >>
    ELSE [i \in 1..length |-> data.bytes[i]]

\* MIDI_send_note_on without the velocity test of midi.c:64
MIDI_send_note_on_NoVelocityCheck(init, channel, note, velocity) ==
    IF channel < 1 \/ channel > 16 \/ note > 127
    THEN << >>
    ELSE MIDI_send_raw(init,
            Buf(<<BitOr(MIDI_NOTE_ON, channel - 1, 8), note, velocity>>), 3)

(* midi.c:62-74 *)
MIDI_send_note_on(init, channel, note, velocity) ==
    IF channel < 1 \/ channel > 16 \/ note > 127 \/ velocity > 127
    THEN << >>
    ELSE MIDI_send_raw(init,
            Buf(<<BitOr(MIDI_NOTE_ON, channel - 1, 8), note, velocity>>), 3)

\* MIDI_send_note_off with the status byte of a Note On
MIDI_send_note_off_AsNoteOn(init, channel, note, velocity) ==
    IF channel < 1 \/ channel > 16 \/ note > 127 \/ velocity > 127
    THEN << >>
    ELSE MIDI_send_raw(init,
            Buf(<<BitOr(MIDI_NOTE_ON, channel - 1, 8), note, velocity>>), 3)

(* midi.c:82-94 *)
MIDI_send_note_off(init, channel, note, velocity) ==
    IF channel < 1 \/ channel > 16 \/ note > 127 \/ velocity > 127
    THEN << >>
    ELSE MIDI_send_raw(init,
            Buf(<<BitOr(MIDI_NOTE_OFF, channel - 1, 8), note, velocity>>), 3)

\* MIDI_send_control_change without the channel test of midi.c:104
MIDI_send_control_change_NoChannelCheck(init, channel, controller, value) ==
    IF controller > 127 \/ value > 127
    THEN << >>
    ELSE MIDI_send_raw(init,
            Buf(<<BitOr(MIDI_CONTROL_CHANGE, ToU8(channel - 1), 8), controller, value>>), 3)

(* midi.c:102-114 *)
MIDI_send_control_change(init, channel, controller, value) ==
    IF channel < 1 \/ channel > 16 \/ controller > 127 \/ value > 127
    THEN << >>
    ELSE MIDI_send_raw(init,
            Buf(<<BitOr(MIDI_CONTROL_CHANGE, channel - 1, 8), controller, value>>), 3)

\* program_change sending a third byte, as the three-byte encoders do
MIDI_send_program_change_ThreeBytes(init, channel, program) ==
    IF channel < 1 \/ channel > 16 \/ program > 127
    THEN << >>
    ELSE MIDI_send_raw(init,
            Buf(<<BitOr(MIDI_PROGRAM_CHANGE, channel - 1, 8), program, 0>>), 3)

(* midi.c:121-132 *)
MIDI_send_program_change(init, channel, program) ==
    IF channel < 1 \/ channel > 16 \/ program > 127
    THEN << >>
    ELSE MIDI_send_raw(init,
            Buf(<<BitOr(MIDI_PROGRAM_CHANGE, channel - 1, 8), program>>), 2)

(* midi.c:146-147.  value is an int16_t; value + 8192 is computed as an int *)
(* and converted to uint16_t, then clamped to the 14-bit maximum.           *)
BendValue(value) ==
    LET bend_value == ToU16(value + 8192)
    IN  IF bend_value > 16383 THEN 16383 ELSE bend_value

\* the three bytes with the two data bytes in the other order
MIDI_send_pitch_bend_MsbFirst(init, channel, value) ==
    IF channel < 1 \/ channel > 16
    THEN << >>
    ELSE LET bend_value == BendValue(value)
         IN  MIDI_send_raw(init,
                Buf(<<BitOr(MIDI_PITCH_BEND, channel - 1, 8),
                  BitAnd(bend_value \div 128, 127, 16),
                  BitAnd(bend_value, 127, 16)>>), 3)

(* midi.c:139-155 *)
MIDI_send_pitch_bend(init, channel, value) ==
    IF channel < 1 \/ channel > 16
    THEN << >>
    ELSE LET bend_value == BendValue(value)
         IN  MIDI_send_raw(init,
                Buf(<<BitOr(MIDI_PITCH_BEND, channel - 1, 8),
                  BitAnd(bend_value, 127, 16),
                  BitAnd(bend_value \div 128, 127, 16)>>), 3)

\* MIDI_send_all_notes_off sending controller 120 (all sound off) instead
MIDI_send_all_notes_off_AllSoundOff(init, channel) ==
    MIDI_send_control_change(init, channel, 120, 0)

(* midi.c:161-164 *)
MIDI_send_all_notes_off(init, channel) ==
    MIDI_send_control_change(init, channel, MIDI_CC_ALL_NOTES_OFF, 0)

-----------------------------------------------------------------------------
(* midi.c:171-224: note names.  A C string is a buffer whose bytes are its  *)
(* characters up to the terminating NUL, each a one-character string here;  *)
(* note_name[i] of the code is note_name.bytes[i+1].                        *)

\* the characters note names are built from in this model
Digits == {"0", "1", "2", "3", "4", "5", "6", "7", "8", "9"}
Chars == {"C", "D", "E", "F", "G", "A", "B", "H", "c", "#", "b", " ", "/", ":", "x"}
         \cup Digits

\* the character code of c (ASCII)
Ord(c) ==
    CASE c = " " -> 32  [] c = "#" -> 35  [] c = "/" -> 47
      [] c = "0" -> 48  [] c = "1" -> 49  [] c = "2" -> 50  [] c = "3" -> 51
      [] c = "4" -> 52  [] c = "5" -> 53  [] c = "6" -> 54  [] c = "7" -> 55
      [] c = "8" -> 56  [] c = "9" -> 57  [] c = ":" -> 58
      [] c = "A" -> 65  [] c = "B" -> 66  [] c = "C" -> 67  [] c = "D" -> 68
      [] c = "E" -> 69  [] c = "F" -> 70  [] c = "G" -> 71  [] c = "H" -> 72
      [] c = "b" -> 98  [] c = "c" -> 99  [] c = "x" -> 120
      [] c = "NUL" -> 0

\* strlen
strlen(str) == Len(str.bytes)

\* midi.c:178: const char notes[] = "C C#D D#E F F#G G#A A#B "
notes ==
    << "C", " ", "C", "#", "D", " ", "D", "#", "E", " ", "F", " ",
       "F", "#", "G", " ", "G", "#", "A", " ", "A", "#", "B", " " >>

\* midi.c:186-196: the flat rewritten as the sharp of the letter below;
\* ok is FALSE where the code returns 255
FlatToSharp(note_char, accidental) ==
    IF accidental # "b"
    THEN [ok |-> TRUE, note_char |-> note_char, accidental |-> accidental]
    ELSE CASE note_char = "D" -> [ok |-> TRUE, note_char |-> "C", accidental |-> "#"]
           [] note_char = "E" -> [ok |-> TRUE, note_char |-> "D", accidental |-> "#"]
           [] note_char = "G" -> [ok |-> TRUE, note_char |-> "F", accidental |-> "#"]
           [] note_char = "A" -> [ok |-> TRUE, note_char |-> "G", accidental |-> "#"]
           [] note_char = "B" -> [ok |-> TRUE, note_char |-> "A", accidental |-> "#"]
           [] OTHER -> [ok |-> FALSE, note_char |-> note_char, accidental |-> accidental]

\* midi.c:199-209: the first i from i on whose entry of notes matches, or -1
RECURSIVE FindSemitone(_, _, _)
FindSemitone(note_char, accidental, i) ==
    IF i = 12 THEN -1
    ELSE IF /\ notes[i * 2 + 1] = note_char
            /\ \/ (accidental = "#" /\ notes[i * 2 + 2] = "#")
               \/ (accidental # "#" /\ notes[i * 2 + 2] = " ")
         THEN i
         ELSE FindSemitone(note_char, accidental, i + 1)

\* MIDI_note_name_to_number with the octave numbered from 0 at note 0
MIDI_note_name_to_number_OctaveFromZero(note_name) ==
    IF note_name = NULL \/ strlen(note_name) < 2 THEN 255
    ELSE With(FlatToSharp(note_name.bytes[1],
                          IF strlen(note_name) > 2 THEN note_name.bytes[2] ELSE "NUL"),
              LAMBDA f :
         IF ~f.ok THEN 255
         ELSE With(FindSemitone(f.note_char, f.accidental, 0), LAMBDA semitone :
              IF semitone = -1 THEN 255
              ELSE With(IF f.accidental = "#" \/ f.accidental = "b" THEN 2 ELSE 1,
                        LAMBDA octave_pos :
                   IF strlen(note_name) <= octave_pos THEN 255
                   ELSE With(Ord(note_name.bytes[octave_pos + 1]) - Ord("0"),
                             LAMBDA octave :
                        IF octave < 0 \/ octave > 9 THEN 255
                        ELSE With(octave * 12 + semitone, LAMBDA midi_note :
                             IF midi_note >= 0 /\ midi_note <= 127
                             THEN midi_note ELSE 255)))))

\* MIDI_note_name_to_number with every flat rejected
MIDI_note_name_to_number_NoFlats(note_name) ==
    IF note_name = NULL \/ strlen(note_name) < 2 THEN 255
    ELSE With([ok |-> strlen(note_name) <= 2 \/ note_name.bytes[2] # "b",
               note_char |-> note_name.bytes[1],
               accidental |-> IF strlen(note_name) > 2 THEN note_name.bytes[2] ELSE "NUL"],
              LAMBDA f :
         IF ~f.ok THEN 255
         ELSE With(FindSemitone(f.note_char, f.accidental, 0), LAMBDA semitone :
              IF semitone = -1 THEN 255
              ELSE With(IF f.accidental = "#" \/ f.accidental = "b" THEN 2 ELSE 1,
                        LAMBDA octave_pos :
                   IF strlen(note_name) <= octave_pos THEN 255
                   ELSE With(Ord(note_name.bytes[octave_pos + 1]) - Ord("0"),
                             LAMBDA octave :
                        IF octave < 0 \/ octave > 9 THEN 255
                        ELSE With((octave + 1) * 12 + semitone, LAMBDA midi_note :
                             IF midi_note >= 0 /\ midi_note <= 127
                             THEN midi_note ELSE 255)))))

(* midi.c:171-224 *)
MIDI_note_name_to_number(note_name) ==
    IF note_name = NULL \/ strlen(note_name) < 2 THEN 255
    ELSE With(FlatToSharp(note_name.bytes[1],
                          IF strlen(note_name) > 2 THEN note_name.bytes[2] ELSE "NUL"),
              LAMBDA f :
         IF ~f.ok THEN 255
         ELSE With(FindSemitone(f.note_char, f.accidental, 0), LAMBDA semitone :
              IF semitone = -1 THEN 255
              ELSE With(IF f.accidental = "#" \/ f.accidental = "b" THEN 2 ELSE 1,
                        LAMBDA octave_pos :
                   IF strlen(note_name) <= octave_pos THEN 255
                   ELSE With(Ord(note_name.bytes[octave_pos + 1]) - Ord("0"),
                             LAMBDA octave :
                        IF octave < 0 \/ octave > 9 THEN 255
                        ELSE With((octave + 1) * 12 + semitone, LAMBDA midi_note :
                             IF midi_note >= 0 /\ midi_note <= 127
                             THEN midi_note ELSE 255)))))

-----------------------------------------------------------------------------
(* The encoder driven directly: every function of midi.c called with        *)
(* arguments around the limits of its parameter types and of its ranges.    *)

\* uint8_t channel arguments
ChannelArgs == {0, 1, 16, 17, 255}
\* uint8_t note / controller / program / value / velocity arguments
DataArgs == {0, 1, 127, 128, 255}
\* int16_t pitch bend arguments
BendArgs == {-32768, -8193, -8192, -8191, -129, -128, -1, 0, 1, 127, 128,
             8190, 8191, 8192, 32767}

\* ret before any operation has returned a value, and after one returned v
NoValue == [returned |-> FALSE, value |-> 0]
Returned(v) == [returned |-> TRUE, value |-> v]

NoCall == [fn |-> "none", channel |-> 0, data1 |-> 0, data2 |-> 0]

Call(fn, channel, data1, data2) ==
    [fn |-> fn, channel |-> channel, data1 |-> data1, data2 |-> data2]

(* midi.c:28-37 *)
MIDI_init ==
    /\ midi_initialized' = TRUE
    /\ uart_tx' = MIDI_send_all_notes_off(TRUE, 1)
    /\ call' = Call("init", 0, 0, 0)
    /\ UNCHANGED <<kbdVars, apiVars>>

Do_note_on ==
    \E ch \in ChannelArgs, note \in DataArgs, vel \in DataArgs :
        /\ uart_tx' = MIDI_send_note_on(midi_initialized, ch, note, vel)
        /\ call' = Call("note_on", ch, note, vel)
        /\ UNCHANGED <<midi_initialized, kbdVars, apiVars>>

Do_note_off ==
    \E ch \in ChannelArgs, note \in DataArgs, vel \in DataArgs :
        /\ uart_tx' = MIDI_send_note_off(midi_initialized, ch, note, vel)
        /\ call' = Call("note_off", ch, note, vel)
        /\ UNCHANGED <<midi_initialized, kbdVars, apiVars>>

Do_control_change ==
    \E ch \in ChannelArgs, ctl \in DataArgs, val \in DataArgs :
        /\ uart_tx' = MIDI_send_control_change(midi_initialized, ch, ctl, val)
        /\ call' = Call("control_change", ch, ctl, val)
        /\ UNCHANGED <<midi_initialized, kbdVars, apiVars>>

Do_program_change ==
    \E ch \in ChannelArgs, prog \in DataArgs :
        /\ uart_tx' = MIDI_send_program_change(midi_initialized, ch, prog)
        /\ call' = Call("program_change", ch, prog, 0)
        /\ UNCHANGED <<midi_initialized, kbdVars, apiVars>>

Do_pitch_bend ==
    \E ch \in ChannelArgs, val \in BendArgs :
        /\ uart_tx' = MIDI_send_pitch_bend(midi_initialized, ch, val)
        /\ call' = Call("pitch_bend", ch, val, 0)
        /\ UNCHANGED <<midi_initialized, kbdVars, apiVars>>

Do_all_notes_off ==
    \E ch \in ChannelArgs :
        /\ uart_tx' = MIDI_send_all_notes_off(midi_initialized, ch)
        /\ call' = Call("all_notes_off", ch, 0, 0)
        /\ UNCHANGED <<midi_initialized, kbdVars, apiVars>>

\* model bounds
MaxRaw == 3         \* the longest buffer handed to MIDI_send_raw
MaxExtra == 1       \* how many characters a note name has after its octave

\* the sequences over S of length at most n
SeqsUpTo(S, n) == UNION {[1..k -> S] : k \in 0..n}

\* uint8_t buffer contents: a data byte, a status byte, the largest byte
RawBytes == {0, 144, 255}

\* the buffers handed to MIDI_send_raw
RawBuffers == {NULL} \cup {Buf(b) : b \in SeqsUpTo(RawBytes, MaxRaw)}

\* the lengths a caller may pass with buffer data: at most the buffer's size
RawLengths(data) == 0..(IF data = NULL THEN MaxRaw ELSE Len(data.bytes))

Do_send_raw ==
    \E data \in RawBuffers :
        \E length \in RawLengths(data) :
            /\ uart_tx' = MIDI_send_raw(midi_initialized, data, length)
            /\ call' = Call("send_raw", 0, data, length)
            /\ UNCHANGED <<midi_initialized, kbdVars, apiVars>>

\* the strings handed to MIDI_note_name_to_number: any first character, no
\* accidental or '#' or 'b', no octave character or a digit or a character
\* next to the digits, then up to MaxExtra more characters; the empty string
\* and the null pointer
NoteNames ==
    {NULL, Buf(<< >>)} \cup
    {Buf(<<first>> \o acc \o oct \o extra) :
        first \in Chars,
        acc \in {<< >>, <<"#">>, <<"b">>},
        oct \in {<< >>} \cup {<<c>> : c \in Digits \cup {"/", ":", " "}},
        extra \in SeqsUpTo({"x", "4", "#"}, MaxExtra)}

\* the pending call note_name_to_number(call.data1) returns
Do_note_name_to_number ==
    /\ call.fn = "note_name_to_number"
    /\ ~ret.returned
    /\ ret' = Returned(MIDI_note_name_to_number(call.data1))
    /\ UNCHANGED <<midi_initialized, uart_tx, call, kbdVars, bus, failed>>

-----------------------------------------------------------------------------
(* The I2C bus and the expander behind it.                                  *)

\* model bounds
MaxKeys == 2        \* how many switches of SwitchSeq the player may close
MaxGlitch == 1      \* how many single-transaction glitch points are tried
MaxErrors == 1      \* bus faults are injected while error_count is below this

\* stm32g4_mcp23017.c:35-80  MCP23017_register_e
MPC23017_REGISTER_IODIR_A == 0
MPC23017_REGISTER_IODIR_B == 1
MPC23017_REGISTER_GPINTEN_A == 4
MPC23017_REGISTER_GPINTEN_B == 5
MPC23017_REGISTER_IOCON_A == 10
MPC23017_REGISTER_IOCON_B == 11
MPC23017_REGISTER_GPPU_A == 12
MPC23017_REGISTER_GPPU_B == 13
MPC23017_REGISTER_GPIO_A == 18
MPC23017_REGISTER_GPIO_B == 19
MPC23017_REGISTER_OLAT_A == 20
MPC23017_REGISTER_OLAT_B == 21
Registers == 0..21

\* stm32g4_mcp23017.h (not among the sources): slot count and error handle
MCP23017_NB_IC == 2
MCP23017_ID_ERROR == 255

\* stm32g4_matrix_keyboard.c:19-20
MATRIX_ROWS == 8
MATRIX_COLS == 8

\* the 8-bit bus address of the expander whose A2..A0 pins are grounded
DeviceAddress == 64

\* the bus the expander is wired to (stm32g4_matrix_keyboard.c:36)
DeviceBus == "I2C1"

\* the switches the player may close, as <<row, column>> of the wiring
SwitchSeq == << <<2, 3>>, <<0, 0>>, <<1, 0>>, <<5, 1>>, <<0, 1>> >>
Switches == {SwitchSeq[k] : k \in 1..(IF MaxKeys < Len(SwitchSeq) THEN MaxKeys ELSE Len(SwitchSeq))}

\* bus faults: none, every transaction fails, the bus cannot be configured,
\* exactly the at-th transaction of the operation fails, or the device
\* answers every read of register at with the complement of its content
NoFault == [kind |-> "none", at |-> 0]
DeadBus == [kind |-> "dead", at |-> 0]
ConfigFault == [kind |-> "config", at |-> 0]
Glitch(n) == [kind |-> "glitch", at |-> n]
Misread(reg) == [kind |-> "misread", at |-> reg]
GlitchPoints == {17 * (k + 1) : k \in 1..MaxGlitch}
Faults == {NoFault, DeadBus} \cup {Glitch(n) : n \in GlitchPoints}

Fails(f, n) == f.kind = "dead" \/ (f.kind = "glitch" /\ f.at = n)

\* the expander after power-on reset: every pin an input, everything else 0
ResetRegs == [r \in Registers |->
                IF r \in {MPC23017_REGISTER_IODIR_A, MPC23017_REGISTER_IODIR_B}
                THEN 255 ELSE 0]

Bit(v, k) == (v \div (2 ^ k)) % 2

\* column c is pulled low: pin c of port A is an output whose latch is 0
ColumnLow(rg, c) ==
    /\ Bit(rg[MPC23017_REGISTER_IODIR_A], c) = 0
    /\ Bit(rg[MPC23017_REGISTER_OLAT_A], c) = 0

\* level of row pin r: high through its pull-up unless a closed switch
\* connects it to a column that is pulled low
RowLevel(rg, cl, r) ==
    IF \E c \in 0..(MATRIX_COLS - 1) : <<r, c>> \in cl /\ ColumnLow(rg, c)
    THEN 0 ELSE 1

RECURSIVE PortBPins(_, _, _)
PortBPins(rg, cl, r) ==
    IF r = MATRIX_ROWS THEN 0
    ELSE (IF Bit(rg[MPC23017_REGISTER_IODIR_B], r) = 1
          THEN RowLevel(rg, cl, r)
          ELSE Bit(rg[MPC23017_REGISTER_OLAT_B], r)) * (2 ^ r)
         + PortBPins(rg, cl, r + 1)

\* what the expander answers to a read of register reg
DevRead(rg, cl, reg) ==
    IF reg = MPC23017_REGISTER_GPIO_B THEN PortBPins(rg, cl, 0)
    ELSE IF reg = MPC23017_REGISTER_GPIO_A THEN rg[MPC23017_REGISTER_OLAT_A]
    ELSE rg[reg]

\* what a write of val to register reg does to the expander
DevWrite(rg, reg, val) ==
    IF reg = MPC23017_REGISTER_GPIO_A
    THEN [rg EXCEPT ![MPC23017_REGISTER_OLAT_A] = val]
    ELSE IF reg = MPC23017_REGISTER_GPIO_B
    THEN [rg EXCEPT ![MPC23017_REGISTER_OLAT_B] = val]
    ELSE [rg EXCEPT ![reg] = val]

(* The machine an operation runs on: the driver's slot table, the device's  *)
(* registers, the closed switches, the injected fault, the number of bus    *)
(* transactions the operation has issued so far, and those transactions.    *)
Machine(i, rg, cl, f) ==
    [ic |-> i, regs |-> rg, closed |-> cl, fault |-> f, n |-> 0, log |-> << >>]

\* a transaction as the log records it: a read ("R") or a write ("W") of
\* register reg, the value written (0 for a read), and whether it succeeded
Transaction(op, reg, val, ok) == [op |-> op, reg |-> reg, val |-> val, ok |-> ok]

\* the device answers a transaction on bus I2Cx to address
Answers(m, I2Cx, address) ==
    ~Fails(m.fault, m.n + 1) /\ I2Cx = DeviceBus /\ address = DeviceAddress

\* BSP_I2C_Read (stm32g4_i2c.h): one read transaction
BSP_I2C_Read(m, I2Cx, address, reg) ==
    LET ok == Answers(m, I2Cx, address)
    IN  [ok |-> ok,
         value |-> IF ~ok THEN 0
                   ELSE IF m.fault = Misread(reg)
                        THEN Not8(DevRead(m.regs, m.closed, reg))
                        ELSE DevRead(m.regs, m.closed, reg),
         m |-> [m EXCEPT !.n = m.n + 1,
                         !.log = Append(@, Transaction("R", reg, 0, ok))]]

\* BSP_I2C_Write (stm32g4_i2c.h): one write transaction
BSP_I2C_Write(m, I2Cx, address, reg, val) ==
    LET ok == Answers(m, I2Cx, address)
    IN  [ok |-> ok,
         m |-> [m EXCEPT !.n = m.n + 1,
                         !.log = Append(@, Transaction("W", reg, val, ok)),
                         !.regs = IF ok THEN DevWrite(m.regs, reg, val) ELSE m.regs]]

-----------------------------------------------------------------------------
(* stm32g4_mcp23017.c                                                       *)

FreeSlot == [used |-> FALSE, address |-> 0, I2Cx |-> "NULL", error_count |-> 0]

\* stm32g4_mcp23017.c:189-196
MCP23017_init(m) ==
    [m EXCEPT !.ic = [i \in DOMAIN m.ic |->
                        [m.ic[i] EXCEPT !.used = FALSE, !.error_count = 0]]]

\* MCP23017_checkId testing the range of id only
MCP23017_checkId_RangeOnly(m, id) == id < MCP23017_NB_IC

\* stm32g4_mcp23017.c:233-245
MCP23017_checkId(m, id) ==
    IF id >= MCP23017_NB_IC THEN FALSE ELSE m.ic[id].used

\* the error counter held at 255 instead of wrapping
CountError_Saturating(m, id) ==
    [m EXCEPT !.ic[id].error_count =
                  IF m.ic[id].error_count = 255 THEN 255 ELSE m.ic[id].error_count + 1]

\* MCP23017_ic[id].error_count++ on a uint8_t
CountError(m, id) ==
    [m EXCEPT !.ic[id].error_count = ToU8(m.ic[id].error_count + 1)]

\* the read-modify-write writing the mask itself instead of the modified value
ReadModifyWrite_Overwrite(m, id, reg, pin, set) ==
    IF ~MCP23017_checkId(m, id) THEN [ok |-> FALSE, m |-> m]
    ELSE With(BSP_I2C_Read(m, m.ic[id].I2Cx, m.ic[id].address, reg), LAMBDA r :
         IF ~r.ok THEN [ok |-> FALSE, m |-> CountError(r.m, id)]
         ELSE With(BSP_I2C_Write(r.m, m.ic[id].I2Cx, m.ic[id].address, reg,
                                 IF set THEN pin ELSE Not8(pin)),
                   LAMBDA w :
              IF ~w.ok THEN [ok |-> FALSE, m |-> CountError(w.m, id)]
              ELSE [ok |-> TRUE, m |-> w.m]))

(* The read-modify-write shared by setIO (255-287), setGPIO (330-358) and   *)
(* setPullUp (430-458): read reg, clear or set the bits of pin, write back. *)
ReadModifyWrite(m, id, reg, pin, set) ==
    IF ~MCP23017_checkId(m, id) THEN [ok |-> FALSE, m |-> m]
    ELSE With(BSP_I2C_Read(m, m.ic[id].I2Cx, m.ic[id].address, reg), LAMBDA r :
         IF ~r.ok THEN [ok |-> FALSE, m |-> CountError(r.m, id)]
         ELSE With(BSP_I2C_Write(r.m, m.ic[id].I2Cx, m.ic[id].address, reg,
                                 IF set THEN BitOr(r.value, pin, 8)
                                        ELSE BitAnd(r.value, Not8(pin), 8)),
                   LAMBDA w :
              IF ~w.ok THEN [ok |-> FALSE, m |-> CountError(w.m, id)]
              ELSE [ok |-> TRUE, m |-> w.m]))

\* stm32g4_mcp23017.c:255-287; direction is "INPUT" or "OUTPUT"
MCP23017_setIO(m, id, port, pin, direction) ==
    ReadModifyWrite(m, id,
        IF port = "A" THEN MPC23017_REGISTER_IODIR_A ELSE MPC23017_REGISTER_IODIR_B,
        pin, direction # "OUTPUT")

\* stm32g4_mcp23017.c:330-358; state is "LOW" or "HIGH"
MCP23017_setGPIO(m, id, port, pin, state) ==
    ReadModifyWrite(m, id,
        IF port = "A" THEN MPC23017_REGISTER_OLAT_A ELSE MPC23017_REGISTER_OLAT_B,
        pin, state # "LOW")

\* stm32g4_mcp23017.c:430-458; state is "LOW" or "HIGH"
MCP23017_setPullUp(m, id, port, pin, state) ==
    ReadModifyWrite(m, id,
        IF port = "A" THEN MPC23017_REGISTER_GPPU_A ELSE MPC23017_REGISTER_GPPU_B,
        pin, state # "LOW")

\* stm32g4_mcp23017.c:368-391; pin is used as a bit mask (line 388)
MCP23017_getGPIO(m, id, port, pin) ==
    IF ~MCP23017_checkId(m, id) THEN [ok |-> FALSE, state |-> "LOW", m |-> m]
    ELSE With(BSP_I2C_Read(m, m.ic[id].I2Cx, m.ic[id].address,
                           IF port = "A" THEN MPC23017_REGISTER_GPIO_A
                                         ELSE MPC23017_REGISTER_GPIO_B),
              LAMBDA r :
         IF ~r.ok THEN [ok |-> FALSE, state |-> "LOW", m |-> CountError(r.m, id)]
         ELSE [ok |-> TRUE,
               state |-> IF BitAnd(r.value, pin, 8) # 0 THEN "HIGH" ELSE "LOW",
               m |-> r.m])

\* the single register read shared by getIO (297-320), getGPIO_all_pins
\* (400-420) and getPullUp (468-491)
ReadRegister(m, id, reg) ==
    IF ~MCP23017_checkId(m, id) THEN [ok |-> FALSE, value |-> 0, m |-> m]
    ELSE With(BSP_I2C_Read(m, m.ic[id].I2Cx, m.ic[id].address, reg), LAMBDA r :
         IF ~r.ok THEN [ok |-> FALSE, value |-> 0, m |-> CountError(r.m, id)]
         ELSE [ok |-> TRUE, value |-> r.value, m |-> r.m])

\* stm32g4_mcp23017.c:297-320; out is *direction where the call succeeds
MCP23017_getIO(m, id, port, pin) ==
    With(ReadRegister(m, id, IF port = "A" THEN MPC23017_REGISTER_IODIR_A
                                           ELSE MPC23017_REGISTER_IODIR_B),
         LAMBDA r : [ok |-> r.ok,
                     out |-> IF r.ok /\ BitAnd(r.value, pin, 8) # 0
                             THEN "INPUT" ELSE "OUTPUT",
                     m |-> r.m])

\* stm32g4_mcp23017.c:400-420; out is *value where the call succeeds
MCP23017_getGPIO_all_pins(m, id, port) ==
    With(ReadRegister(m, id, IF port = "A" THEN MPC23017_REGISTER_GPIO_A
                                           ELSE MPC23017_REGISTER_GPIO_B),
         LAMBDA r : [ok |-> r.ok, out |-> r.value, m |-> r.m])

\* stm32g4_mcp23017.c:468-491; out is *state where the call succeeds
MCP23017_getPullUp(m, id, port, pin) ==
    With(ReadRegister(m, id, IF port = "A" THEN MPC23017_REGISTER_GPPU_A
                                           ELSE MPC23017_REGISTER_GPPU_B),
         LAMBDA r : [ok |-> r.ok,
                     out |-> IF r.ok /\ BitAnd(r.value, pin, 8) # 0
                             THEN "HIGH" ELSE "LOW",
                     m |-> r.m])

\* stm32g4_mcp23017.c:498-503
MCP23017_getErrorCount(m, id) ==
    IF id >= MCP23017_NB_IC THEN 255
    ELSE IF ~m.ic[id].used THEN 255
    ELSE m.ic[id].error_count

\* stm32g4_mcp23017.c:510-516
MCP23017_resetErrorCount(m, id) ==
    IF ~MCP23017_checkId(m, id) THEN [ok |-> FALSE, m |-> m]
    ELSE [ok |-> TRUE, m |-> [m EXCEPT !.ic[id].error_count = 0]]

\* InitSteps with the output latch written before the pull-ups
InitSteps_LatchFirst ==
    << [op |-> "R", reg |-> MPC23017_REGISTER_IODIR_A, val |-> 0],
       [op |-> "W", reg |-> MPC23017_REGISTER_IODIR_A, val |-> 0],
       [op |-> "W", reg |-> MPC23017_REGISTER_IODIR_B, val |-> 255],
       [op |-> "W", reg |-> MPC23017_REGISTER_OLAT_A, val |-> 255],
       [op |-> "W", reg |-> MPC23017_REGISTER_GPPU_B, val |-> 255],
       [op |-> "W", reg |-> MPC23017_REGISTER_GPPU_A, val |-> 0],
       [op |-> "W", reg |-> MPC23017_REGISTER_IOCON_A, val |-> 0],
       [op |-> "W", reg |-> MPC23017_REGISTER_IOCON_B, val |-> 0],
       [op |-> "W", reg |-> MPC23017_REGISTER_GPINTEN_A, val |-> 0],
       [op |-> "W", reg |-> MPC23017_REGISTER_GPINTEN_B, val |-> 0] >>

\* stm32g4_mcp23017.c:544-623: the test read and the nine configuration writes
InitSteps ==
    << [op |-> "R", reg |-> MPC23017_REGISTER_IODIR_A, val |-> 0],
       [op |-> "W", reg |-> MPC23017_REGISTER_IODIR_A, val |-> 0],
       [op |-> "W", reg |-> MPC23017_REGISTER_IODIR_B, val |-> 255],
       [op |-> "W", reg |-> MPC23017_REGISTER_GPPU_B, val |-> 255],
       [op |-> "W", reg |-> MPC23017_REGISTER_GPPU_A, val |-> 0],
       [op |-> "W", reg |-> MPC23017_REGISTER_OLAT_A, val |-> 255],
       [op |-> "W", reg |-> MPC23017_REGISTER_IOCON_A, val |-> 0],
       [op |-> "W", reg |-> MPC23017_REGISTER_IOCON_B, val |-> 0],
       [op |-> "W", reg |-> MPC23017_REGISTER_GPINTEN_A, val |-> 0],
       [op |-> "W", reg |-> MPC23017_REGISTER_GPINTEN_B, val |-> 0] >>

\* runs InitSteps from step k; stops at the first transaction that fails
RECURSIVE RunInitSteps(_, _, _, _)
RunInitSteps(m, I2Cx, addr, k) ==
    IF k > Len(InitSteps) THEN [ok |-> TRUE, m |-> m]
    ELSE With(IF InitSteps[k].op = "R"
              THEN BSP_I2C_Read(m, I2Cx, addr, InitSteps[k].reg)
              ELSE BSP_I2C_Write(m, I2Cx, addr, InitSteps[k].reg, InitSteps[k].val),
              LAMBDA t :
         IF ~t.ok THEN [ok |-> FALSE, m |-> t.m]
         ELSE RunInitSteps(t.m, I2Cx, addr, k + 1))

\* VerifyConfig without the comparison of stm32g4_mcp23017.c:637
VerifyConfig_NoCompare(m, I2Cx, addr) ==
    With(BSP_I2C_Read(m, I2Cx, addr, MPC23017_REGISTER_IODIR_A), LAMBDA a :
    IF ~a.ok THEN [ok |-> FALSE, m |-> a.m]
    ELSE With(BSP_I2C_Read(a.m, I2Cx, addr, MPC23017_REGISTER_IODIR_B), LAMBDA b :
         IF ~b.ok THEN [ok |-> FALSE, m |-> b.m]
         ELSE With(BSP_I2C_Read(b.m, I2Cx, addr, MPC23017_REGISTER_GPPU_B), LAMBDA p :
              IF ~p.ok THEN [ok |-> FALSE, m |-> p.m]
              ELSE [ok |-> TRUE, m |-> p.m])))

\* stm32g4_mcp23017.c:628-642: the read-back, left to right with || 
VerifyConfig(m, I2Cx, addr) ==
    With(BSP_I2C_Read(m, I2Cx, addr, MPC23017_REGISTER_IODIR_A), LAMBDA a :
    IF ~a.ok THEN [ok |-> FALSE, m |-> a.m]
    ELSE With(BSP_I2C_Read(a.m, I2Cx, addr, MPC23017_REGISTER_IODIR_B), LAMBDA b :
         IF ~b.ok THEN [ok |-> FALSE, m |-> b.m]
         ELSE With(BSP_I2C_Read(b.m, I2Cx, addr, MPC23017_REGISTER_GPPU_B), LAMBDA p :
              IF ~p.ok THEN [ok |-> FALSE, m |-> p.m]
              ELSE [ok |-> ~(a.value # 0 \/ b.value # 255 \/ p.value # 255),
                    m |-> p.m])))

\* stm32g4_mcp23017.c:533: the 8-bit bus address for the address pins A2..A0
ChipAddress(address) == BitOr(64, BitAnd(address, 7, 8) * 2, 8)

\* an error path of MCP23017_initIc that leaves the slot marked in use
Release_KeepUsed(m, id) == m

\* MCP23017_ic[id].used = false on the error paths of MCP23017_initIc
Release(m, id) == [m EXCEPT !.ic[id].used = FALSE]

\* stm32g4_mcp23017.c:525-646; ok stands for HAL_OK
MCP23017_initIc(m, id, I2Cx, address) ==
    IF id >= MCP23017_NB_IC THEN [ok |-> FALSE, m |-> m]
    ELSE With([m EXCEPT !.ic[id] = [used |-> TRUE,
                                    address |-> ChipAddress(address),
                                    I2Cx |-> I2Cx,
                                    error_count |-> 0]],
              LAMBDA m1 :
         IF m1.fault.kind = "config" THEN [ok |-> FALSE, m |-> Release(m1, id)]
         ELSE With(RunInitSteps(m1, I2Cx, ChipAddress(address), 1), LAMBDA s :
              IF ~s.ok THEN [ok |-> FALSE, m |-> Release(s.m, id)]
              ELSE With(VerifyConfig(s.m, I2Cx, ChipAddress(address)), LAMBDA v :
                   IF ~v.ok THEN [ok |-> FALSE, m |-> Release(v.m, id)]
                   ELSE [ok |-> TRUE, m |-> v.m])))

\* the search of MCP23017_add going from the highest slot down
RECURSIVE AddFrom_HighestFirst(_, _, _, _)
AddFrom_HighestFirst(m, I2Cx, address, i) ==
    IF i = MCP23017_NB_IC THEN [id |-> MCP23017_ID_ERROR, m |-> m]
    ELSE With(MCP23017_NB_IC - 1 - i, LAMBDA slot :
         IF m.ic[slot].used = FALSE
         THEN With(MCP23017_initIc(m, slot, I2Cx, address), LAMBDA r :
                   [id |-> IF r.ok THEN slot ELSE MCP23017_ID_ERROR, m |-> r.m])
         ELSE AddFrom_HighestFirst(m, I2Cx, address, i + 1))

\* stm32g4_mcp23017.c:212-225: the first slot that is not in use, from i
RECURSIVE AddFrom(_, _, _, _)
AddFrom(m, I2Cx, address, i) ==
    IF i = MCP23017_NB_IC THEN [id |-> MCP23017_ID_ERROR, m |-> m]
    ELSE IF m.ic[i].used = FALSE
         THEN With(MCP23017_initIc(m, i, I2Cx, address), LAMBDA r :
                   [id |-> IF r.ok THEN i ELSE MCP23017_ID_ERROR, m |-> r.m])
         ELSE AddFrom(m, I2Cx, address, i + 1)

\* MCP23017_add without the address test of stm32g4_mcp23017.c:206
MCP23017_add_NoAddressCheck(m, I2Cx, address) == AddFrom(m, I2Cx, address, 0)

\* stm32g4_mcp23017.c:204-226
MCP23017_add(m, I2Cx, address) ==
    IF address > 7 THEN [id |-> MCP23017_ID_ERROR, m |-> m]
    ELSE AddFrom(m, I2Cx, address, 0)

-----------------------------------------------------------------------------
(* The driver called directly: every public function of stm32g4_mcp23017.c  *)
(* with arguments around the limits of its parameters, on a bus that may    *)
(* fail.  No switch is closed.                                              *)

\* MCP23017_id_t arguments: the slots, the first id past them, the error id
IdArgs == {0, 1, MCP23017_NB_IC, MCP23017_ID_ERROR}
\* I2C_TypeDef* arguments: the bus the expander is on and another one
BusArgs == {"I2C1", "I2C2"}
\* MCP23017_address_t arguments around the limit 7
AddressArgs == {0, 7, 8}
\* MCP23017_port_e arguments
PortArgs == {"A", "B"}
\* MCP23017_pin_e arguments (bit masks): pin 0
PinArgs == {1}
\* the <<port, value>> arguments the keyboard passes to the three setters
\* (stm32g4_matrix_keyboard.c:41-48, 85)
SetIOArgs == {<<"A", "OUTPUT">>, <<"B", "INPUT">>}
SetGPIOArgs == {<<"A", "LOW">>, <<"A", "HIGH">>}
SetPullUpArgs == {<<"B", "HIGH">>}

\* the bus transactions of a successful MCP23017_initIc: the init steps and
\* the three reads of the verification
InitTransactions == 1..(Len(InitSteps) + 3)

\* the faults injected into a call of MCP23017_add that reaches the bus
\* and addresses the expander; another call meets a sound bus
AddFaults(i, I2Cx, address) ==
    IF /\ address <= 7
       /\ \E id \in DOMAIN i : ~i[id].used
       /\ I2Cx = DeviceBus
       /\ ChipAddress(address) = DeviceAddress
    THEN {NoFault, ConfigFault, DeadBus}
         \cup {Glitch(n) : n \in InitTransactions}
         \cup {Misread(reg) : reg \in {MPC23017_REGISTER_IODIR_A,
                                       MPC23017_REGISTER_IODIR_B,
                                       MPC23017_REGISTER_GPPU_A,
                                       MPC23017_REGISTER_GPPU_B}}
    ELSE {NoFault}

\* the error counts at which a fault is injected: the low ones, and the two
\* at the top of the uint8_t range
FaultCounts == {c \in 0..255 : c < MaxErrors} \cup {254, 255}

\* the faults injected into a register operation of n transactions on chip
\* id: one of its transactions fails, while the chip's error count is low
RegisterFaults(i, id, n) ==
    IF MCP23017_checkId([ic |-> i], id) /\ i[id].error_count \in FaultCounts
    THEN {NoFault} \cup {Glitch(k) : k \in 1..n} ELSE {NoFault}

DriverCall(fn, id, I2Cx, address, port, pin, arg) ==
    [fn |-> fn, id |-> id, I2Cx |-> I2Cx, address |-> address,
     port |-> port, pin |-> pin, arg |-> arg]

\* observer: the failed transactions of chip id's register operations since
\* it was added or its count was reset, after the call c that left the
\* machine m and returned value
FailedAfter(c, m, value, id) ==
    IF ~m.ic[id].used THEN 0
    ELSE IF c.fn = "add" THEN (IF value = id THEN 0 ELSE failed[id])
    ELSE IF c.id # id THEN failed[id]
    ELSE IF c.fn = "resetErrorCount" THEN 0
    ELSE failed[id] + Cardinality({k \in 1..Len(m.log) : ~m.log[k].ok})

\* the call c, made under fault f, left the machine m and returned value
DriverReturn(c, f, m, value) ==
    /\ call' = c
    /\ fault' = f
    /\ ic' = m.ic
    /\ regs' = m.regs
    /\ bus' = m.log
    /\ ret' = Returned(value)
    /\ failed' = [id \in DOMAIN failed |-> FailedAfter(c, m, value, id)]
    /\ UNCHANGED <<midi_initialized, uart_tx, pc, shift_wraps, kb_initialized,
                   keyboard_chip_id, keyboard_state, raw_state, closed, run,
                   prev_run, sounding>>

Drv_init ==
    DriverReturn(DriverCall("init", 0, "NULL", 0, "A", 0, "none"), NoFault,
                 MCP23017_init(Machine(ic, regs, {}, NoFault)), TRUE)

Drv_add ==
    \E I2Cx \in BusArgs, address \in AddressArgs :
        \E f \in AddFaults(ic, I2Cx, address) :
        \E r \in {MCP23017_add(Machine(ic, regs, {}, f), I2Cx, address)} :
            DriverReturn(DriverCall("add", 0, I2Cx, address, "A", 0, "none"),
                         f, r.m, r.id)

Drv_setIO ==
    \E id \in IdArgs, a \in SetIOArgs, pin \in PinArgs :
        \E f \in RegisterFaults(ic, id, 2) :
        \E r \in {MCP23017_setIO(Machine(ic, regs, {}, f), id, a[1], pin, a[2])} :
            DriverReturn(DriverCall("setIO", id, "NULL", 0, a[1], pin, a[2]),
                         f, r.m, r.ok)

Drv_getIO ==
    \E id \in IdArgs, port \in PortArgs, pin \in PinArgs :
        \E f \in RegisterFaults(ic, id, 1) :
        \E r \in {MCP23017_getIO(Machine(ic, regs, {}, f), id, port, pin)} :
            DriverReturn(DriverCall("getIO", id, "NULL", 0, port, pin, "none"),
                         f, r.m, r.ok)

Drv_setGPIO ==
    \E id \in IdArgs, a \in SetGPIOArgs, pin \in PinArgs :
        \E f \in RegisterFaults(ic, id, 2) :
        \E r \in {MCP23017_setGPIO(Machine(ic, regs, {}, f), id, a[1], pin, a[2])} :
            DriverReturn(DriverCall("setGPIO", id, "NULL", 0, a[1], pin, a[2]),
                         f, r.m, r.ok)

Drv_getGPIO ==
    \E id \in IdArgs, port \in PortArgs, pin \in PinArgs :
        \E f \in RegisterFaults(ic, id, 1) :
        \E r \in {MCP23017_getGPIO(Machine(ic, regs, {}, f), id, port, pin)} :
            DriverReturn(DriverCall("getGPIO", id, "NULL", 0, port, pin, "none"),
                         f, r.m, r.ok)

Drv_getGPIO_all_pins ==
    \E id \in IdArgs, port \in PortArgs :
        \E f \in RegisterFaults(ic, id, 1) :
        \E r \in {MCP23017_getGPIO_all_pins(Machine(ic, regs, {}, f), id, port)} :
            DriverReturn(DriverCall("getGPIO_all_pins", id, "NULL", 0, port, 0, "none"),
                         f, r.m, r.ok)

Drv_setPullUp ==
    \E id \in IdArgs, a \in SetPullUpArgs, pin \in PinArgs :
        \E f \in RegisterFaults(ic, id, 2) :
        \E r \in {MCP23017_setPullUp(Machine(ic, regs, {}, f), id, a[1], pin, a[2])} :
            DriverReturn(DriverCall("setPullUp", id, "NULL", 0, a[1], pin, a[2]),
                         f, r.m, r.ok)

Drv_getPullUp ==
    \E id \in IdArgs, port \in PortArgs, pin \in PinArgs :
        \E f \in RegisterFaults(ic, id, 1) :
        \E r \in {MCP23017_getPullUp(Machine(ic, regs, {}, f), id, port, pin)} :
            DriverReturn(DriverCall("getPullUp", id, "NULL", 0, port, pin, "none"),
                         f, r.m, r.ok)

Drv_getErrorCount ==
    \E id \in IdArgs :
        DriverReturn(DriverCall("getErrorCount", id, "NULL", 0, "A", 0, "none"),
                     NoFault, Machine(ic, regs, {}, NoFault),
                     MCP23017_getErrorCount([ic |-> ic], id))

Drv_resetErrorCount ==
    \E id \in IdArgs :
        \E r \in {MCP23017_resetErrorCount(Machine(ic, regs, {}, NoFault), id)} :
            DriverReturn(DriverCall("resetErrorCount", id, "NULL", 0, "A", 0, "none"),
                         NoFault, r.m, r.ok)

-----------------------------------------------------------------------------
(* One read-modify-write applied to a register of a registered chip.        *)

\* contents of the register before the call
ByteSamples == {0, 85, 165, 255}
\* MCP23017_pin_e arguments (bit masks): no pin, one pin, several, all
MaskArgs == {0, 1, 128, 129, 15, 255}
\* the <<function, value>> pairs of the three setters
RmwArgs == {<<"setIO", "OUTPUT">>, <<"setIO", "INPUT">>,
            <<"setGPIO", "LOW">>, <<"setGPIO", "HIGH">>,
            <<"setPullUp", "LOW">>, <<"setPullUp", "HIGH">>}

\* the register a setter works on (lines 262, 336, 436)
TargetRegister(fn, port) ==
    CASE fn = "setIO" ->
            IF port = "A" THEN MPC23017_REGISTER_IODIR_A ELSE MPC23017_REGISTER_IODIR_B
      [] fn = "setGPIO" ->
            IF port = "A" THEN MPC23017_REGISTER_OLAT_A ELSE MPC23017_REGISTER_OLAT_B
      [] fn = "setPullUp" ->
            IF port = "A" THEN MPC23017_REGISTER_GPPU_A ELSE MPC23017_REGISTER_GPPU_B

\* the setter named by the call c, run on the machine m
SetterOf(m, c) ==
    CASE c.fn = "setIO" -> MCP23017_setIO(m, c.id, c.port, c.pin, c.arg)
      [] c.fn = "setGPIO" -> MCP23017_setGPIO(m, c.id, c.port, c.pin, c.arg)
      [] c.fn = "setPullUp" -> MCP23017_setPullUp(m, c.id, c.port, c.pin, c.arg)

Do_setter ==
    /\ call.fn \in {"setIO", "setGPIO", "setPullUp"}
    /\ ~ret.returned
    /\ \E r \in {SetterOf(Machine(ic, regs, {}, fault), call)} :
          /\ ic' = r.m.ic
          /\ regs' = r.m.regs
          /\ bus' = r.m.log
          /\ ret' = Returned(r.ok)
    /\ UNCHANGED <<midi_initialized, uart_tx, call, pc, shift_wraps, kb_initialized,
                   keyboard_chip_id, keyboard_state, raw_state, closed, fault,
                   run, prev_run, sounding, failed>>

-----------------------------------------------------------------------------
(* stm32g4_matrix_keyboard.c                                                *)

\* a call whose returned bool the caller ignores: the code goes on either way
Discard(result, then) == IF result THEN then ELSE then

\* a pass over the columns that writes the column going LOW and no other
RECURSIVE DriveColumns_OnlyLow(_, _, _, _)
DriveColumns_OnlyLow(m, id, c, low) ==
    IF c = MATRIX_COLS THEN m
    ELSE IF c # low THEN DriveColumns_OnlyLow(m, id, c + 1, low)
    ELSE With(MCP23017_setGPIO(m, id, "A", 2 ^ c, "LOW"),
              LAMBDA r : Discard(r.ok, DriveColumns_OnlyLow(r.m, id, c + 1, low)))

\* a pass over the columns that drives the column going LOW first and the
\* other columns HIGH after it
RECURSIVE DriveColumns_LowFirst(_, _, _, _)
DriveColumns_LowFirst(m, id, c, low) ==
    IF c = MATRIX_COLS THEN m
    ELSE With(IF low = -1 THEN c ELSE IF c = 0 THEN low ELSE IF c <= low THEN c - 1 ELSE c,
              LAMBDA col :
         With(MCP23017_setGPIO(m, id, "A", 2 ^ col,
                               IF col = low THEN "LOW" ELSE "HIGH"),
              LAMBDA r : Discard(r.ok, DriveColumns_LowFirst(r.m, id, c + 1, low))))

\* one pass over the columns writing port A: column low goes LOW (none when
\* low = -1), every other column HIGH  (lines 76-78, 84-87, 119-121)
RECURSIVE DriveColumns(_, _, _, _)
DriveColumns(m, id, c, low) ==
    IF c = MATRIX_COLS THEN m
    ELSE With(MCP23017_setGPIO(m, id, "A", 2 ^ c,
                               IF c = low THEN "LOW" ELSE "HIGH"),
              LAMBDA r : Discard(r.ok, DriveColumns(r.m, id, c + 1, low)))

\* stm32g4_matrix_keyboard.c:93-101 (and 207-215): port_b_value built from
\* eight calls getGPIO(.., pin, ..) with pin = 0..7
RECURSIVE ReadRows(_, _, _, _)
ReadRows(m, id, pin, port_b_value) ==
    IF pin = 8 THEN [value |-> port_b_value, m |-> m]
    ELSE With(MCP23017_getGPIO(m, id, "B", pin), LAMBDA g :
         IF g.ok /\ g.state = "HIGH"
         THEN ReadRows(g.m, id, pin + 1, BitOr(port_b_value, 2 ^ pin, 8))
         ELSE ReadRows(g.m, id, pin + 1, port_b_value))

\* stm32g4_matrix_keyboard.c:104-115: the keys of column col whose row reads low
KeysOfColumn(port_b_value, col) ==
    {row * MATRIX_COLS + col : row \in
        {r \in 0..(MATRIX_ROWS - 1) :
            Bit(port_b_value, r) = 0 /\ r * MATRIX_COLS + col < 32}}

\* the sweep going from the last column to the first
RECURSIVE ScanColumns_Reversed(_, _)
ScanColumns_Reversed(s, id) ==
    IF s.col = MATRIX_COLS THEN s
    ELSE With(ReadRows(DriveColumns(s.m, id, 0, MATRIX_COLS - 1 - s.col), id, 0, 0),
              LAMBDA rows :
         ScanColumns_Reversed([m |-> rows.m,
                               col |-> s.col + 1,
                               state |-> s.state \cup
                                   KeysOfColumn(rows.value, MATRIX_COLS - 1 - s.col)],
                              id))

\* stm32g4_matrix_keyboard.c:82-116
\* s holds the loop's variables: the machine, col and the bitmap state
RECURSIVE ScanColumns(_, _)
ScanColumns(s, id) ==
    IF s.col = MATRIX_COLS THEN s
    ELSE With(ReadRows(DriveColumns(s.m, id, 0, s.col), id, 0, 0), LAMBDA rows :
         ScanColumns([m |-> rows.m,
                      col |-> s.col + 1,
                      state |-> s.state \cup KeysOfColumn(rows.value, s.col)],
                     id))

\* read_all returning right after the sweep, the columns left as they are
MATRIX_KEYBOARD_read_all_touchs_NoRestore(m, initialized, id) ==
    IF ~initialized THEN [state |-> {}, m |-> m]
    ELSE With(ScanColumns([m |-> DriveColumns(m, id, 0, -1),
                           col |-> 0, state |-> {}], id),
              LAMBDA s : [state |-> s.state, m |-> s.m])

\* stm32g4_matrix_keyboard.c:69-124
MATRIX_KEYBOARD_read_all_touchs(m, initialized, id) ==
    IF ~initialized THEN [state |-> {}, m |-> m]
    ELSE With(ScanColumns([m |-> DriveColumns(m, id, 0, -1),
                           col |-> 0, state |-> {}], id),
              LAMBDA s : [state |-> s.state, m |-> DriveColumns(s.m, id, 0, -1)])

\* stm32g4_matrix_keyboard.c:40-43
RECURSIVE ConfigColumns(_, _, _)
ConfigColumns(m, id, col) ==
    IF col = MATRIX_COLS THEN m
    ELSE With(MCP23017_setIO(m, id, "A", 2 ^ col, "OUTPUT"), LAMBDA d :
         With(MCP23017_setGPIO(d.m, id, "A", 2 ^ col, "HIGH"), LAMBDA g :
         Discard(d.ok, Discard(g.ok, ConfigColumns(g.m, id, col + 1)))))

\* stm32g4_matrix_keyboard.c:46-49
RECURSIVE ConfigRows(_, _, _)
ConfigRows(m, id, row) ==
    IF row = MATRIX_ROWS THEN m
    ELSE With(MCP23017_setIO(m, id, "B", 2 ^ row, "INPUT"), LAMBDA d :
         With(MCP23017_setPullUp(d.m, id, "B", 2 ^ row, "HIGH"), LAMBDA p :
         Discard(d.ok, Discard(p.ok, ConfigRows(p.m, id, row + 1)))))

\* stm32g4_matrix_keyboard.c:28-67; the result's id is keyboard_chip_id
BSP_MATRIX_KEYBOARD_init(m) ==
    With(MCP23017_add(MCP23017_init(m), "I2C1", 0), LAMBDA a :
         [id |-> a.id, m |-> ConfigRows(ConfigColumns(a.m, a.id, 0), a.id, 0)])

\* stm32g4_matrix_keyboard.c:202-224
BSP_MATRIX_KEYBOARD_test_i2c(m, id) ==
    With(ReadRows(m, id, 0, 0), LAMBDA rows :
    With(MCP23017_setGPIO(rows.m, id, "A", 1, "LOW"), LAMBDA lo :
         MCP23017_setGPIO(lo.m, id, "A", 1, "HIGH").m))

-----------------------------------------------------------------------------
(* main.c                                                                   *)

MAX_MATRIX_KEYS == 64
DEBOUNCE_COUNT == 3

\* main.c:46-63
midi_notes ==
    << 48, 49, 50, 51, 52, 53, 54, 55,
       56, 57, 58, 59, 60, 61, 62, 63,
       64, 65, 66, 67, 68, 69, 70, 71,
       72, 73, 74, 75, 76, 77, 78, 79,
       80, 81, 82, 83, 84, 85, 86, 87,
       88, 89, 90, 91, 92, 93, 94, 95,
       96, 97, 98, 99, 100, 101, 102, 103,
       104, 105, 106, 107, 108, 109, 110, 111 >>

(* 1UL << i on a 32-bit unsigned long, as a set of bit positions.  For      *)
(* i >= 32 the shift is undefined: the build either yields 0 or shifts by   *)
(* i mod 32.                                                                *)
Shl1(wraps, i) ==
    IF i < 32 THEN {i} ELSE IF wraps THEN {i % 32} ELSE {}

\* (x & mask) != 0
Test(x, mask) == x \cap mask # {}

\* main.c:66-71 zeroed (main.c:89, 126)
ZeroKeyboard ==
    [current_state |-> {}, previous_state |-> {},
     debounce_counter |-> [i \in 0..(MAX_MATRIX_KEYS - 1) |-> 0],
     stable_state |-> {}]

\* the threshold test written > instead of >=
DebounceReached_Strict(c) == c > DEBOUNCE_COUNT

\* main.c:208: the debounce threshold is reached
DebounceReached(c) == c >= DEBOUNCE_COUNT

\* DebounceKey with the counter left alone when the raw bit agrees
DebounceKey_KeepCount(k, wraps, raw, i) ==
    LET raw_pressed == Test(raw, Shl1(wraps, i))
        stable_pressed == Test(k.stable_state, Shl1(wraps, i))
    IN  IF raw_pressed = stable_pressed
        THEN k
        ELSE LET c == ToU8(k.debounce_counter[i] + 1)
             IN  IF DebounceReached(c)
                 THEN [k EXCEPT !.stable_state =
                                    IF raw_pressed THEN @ \cup Shl1(wraps, i)
                                                   ELSE @ \ Shl1(wraps, i),
                                !.debounce_counter[i] = 0]
                 ELSE [k EXCEPT !.debounce_counter[i] = c]

\* main.c:197-216: the body of the debounce loop for key i
DebounceKey(k, wraps, raw, i) ==
    LET raw_pressed == Test(raw, Shl1(wraps, i))
        stable_pressed == Test(k.stable_state, Shl1(wraps, i))
    IN  IF raw_pressed = stable_pressed
        THEN [k EXCEPT !.debounce_counter[i] = 0]
        ELSE LET c == ToU8(k.debounce_counter[i] + 1)
             IN  IF DebounceReached(c)
                 THEN [k EXCEPT !.stable_state =
                                    IF raw_pressed THEN @ \cup Shl1(wraps, i)
                                                   ELSE @ \ Shl1(wraps, i),
                                !.debounce_counter[i] = 0]
                 ELSE [k EXCEPT !.debounce_counter[i] = c]

\* main.c:196-217; s holds the loop's variables: i and the keyboard state
RECURSIVE DebounceLoop(_, _, _)
DebounceLoop(s, wraps, raw) ==
    IF s.i = MAX_MATRIX_KEYS THEN s.k
    ELSE DebounceLoop([i |-> s.i + 1, k |-> DebounceKey(s.k, wraps, raw, s.i)],
                      wraps, raw)

\* Update_Keyboard_State saving previous_state after the loop instead of before
Update_Keyboard_State_LateSnapshot(k, wraps, raw) ==
    With(DebounceLoop([i |-> 0, k |-> k], wraps, raw),
         LAMBDA k2 : [k2 EXCEPT !.previous_state = k2.stable_state,
                                !.current_state = k2.stable_state])

\* main.c:190-221
Update_Keyboard_State(k, wraps, raw) ==
    With(DebounceLoop([i |-> 0, k |-> [k EXCEPT !.previous_state = k.stable_state]],
                      wraps, raw),
         LAMBDA k2 : [k2 EXCEPT !.current_state = k2.stable_state])

\* Send_MIDI_Note sending the key index as the note, without the table
Send_MIDI_Note_NoTable(init, key_index, pressed) ==
    IF key_index < 0 \/ key_index >= MAX_MATRIX_KEYS THEN << >>
    ELSE IF pressed THEN MIDI_send_note_on(init, 1, key_index, 100)
                    ELSE MIDI_send_note_off(init, 1, key_index, 0)

\* main.c:273-295: the bytes Send_MIDI_Note hands to the transport
Send_MIDI_Note(init, key_index, pressed) ==
    IF key_index < 0 \/ key_index >= MAX_MATRIX_KEYS THEN << >>
    ELSE LET midi_note == midi_notes[key_index + 1]
         IN  IF pressed THEN MIDI_send_note_on(init, 1, midi_note, 100)
                        ELSE MIDI_send_note_off(init, 1, midi_note, 0)

\* the loop of Process_Key_Changes sending the highest key first
RECURSIVE ChangesLoop_Descending(_, _, _, _, _)
ChangesLoop_Descending(init, k, wraps, changes, i) ==
    IF i = MAX_MATRIX_KEYS THEN << >>
    ELSE ChangesLoop_Descending(init, k, wraps, changes, i + 1)
         \o (IF Test(changes, Shl1(wraps, i))
             THEN Send_MIDI_Note(init, i, Test(k.current_state, Shl1(wraps, i)))
             ELSE << >>)

\* main.c:259-265
RECURSIVE ChangesLoop(_, _, _, _, _)
ChangesLoop(init, k, wraps, changes, i) ==
    IF i = MAX_MATRIX_KEYS THEN << >>
    ELSE (IF Test(changes, Shl1(wraps, i))
          THEN Send_MIDI_Note(init, i, Test(k.current_state, Shl1(wraps, i)))
          ELSE << >>)
         \o ChangesLoop(init, k, wraps, changes, i + 1)

\* main.c:249-266: the bytes handed to the transport
Process_Key_Changes(init, k, wraps) ==
    LET changes == (k.current_state \ k.previous_state)
                   \cup (k.previous_state \ k.current_state)
    IN  IF changes = {} THEN << >>
        ELSE ChangesLoop(init, k, wraps, changes, 0)

\* observer: the notes left sounding by the messages of bytes, three bytes
\* each, received in order after the notes of s: a Note On adds its note, a
\* Note Off removes it
RECURSIVE NotesAfter(_, _)
NotesAfter(s, bytes) ==
    IF Len(bytes) < 3 THEN s
    ELSE NotesAfter(IF bytes[1] = MIDI_NOTE_ON THEN s \cup {bytes[2]}
                    ELSE IF bytes[1] = MIDI_NOTE_OFF THEN s \ {bytes[2]}
                    ELSE s,
                    SubSeq(bytes, 4, Len(bytes)))

\* observer: for each key of the bitmap, the number of scan cycles in a row,
\* up to the last one, whose raw bit differed from the stable bit found at
\* the start of the cycle, counted since the stable bit last changed
RunAfter(rn, stable, stable2, raw) ==
    [i \in 0..31 |->
        IF (i \in stable) # (i \in stable2) THEN 0
        ELSE IF (i \in raw) # (i \in stable)
             THEN (IF rn[i] < DEBOUNCE_COUNT THEN rn[i] + 1 ELSE rn[i])
             ELSE 0]

\* main.c:120-123 on the driver table i and the device registers rg, under
\* fault f: the chip id, and the table and registers left behind
KeyboardStartup(i, rg, f) ==
    With(BSP_MATRIX_KEYBOARD_init(Machine(i, rg, {}, f)), LAMBDA kb :
    With(BSP_MATRIX_KEYBOARD_test_i2c(kb.m, kb.id), LAMBDA m1 :
         [id |-> kb.id, ic |-> m1.ic, regs |-> m1.regs]))

\* faults are injected into a scan only while the chip's error count is low
ScanFaults(i, id) ==
    IF MCP23017_checkId([ic |-> i], id) /\ i[id].error_count < MaxErrors
    THEN Faults ELSE {NoFault}

\* read_all on the driver/device state d with the switches cl closed, under f
ScanOf(d, cl, f) ==
    MATRIX_KEYBOARD_read_all_touchs(Machine(d.ic, d.regs, cl, f), TRUE, d.id)

ScanInputs(D) ==
    {<<d, cl, f>> : d \in D, cl \in SUBSET Switches, f \in Faults}
    \cap {k \in D \X (SUBSET Switches) \X Faults : k[3] \in ScanFaults(k[1].ic, k[1].id)}

(* read_all tabulated on every input the controller can present to it: the   *)
(* driver/device states main() can leave behind, and those a scan of a       *)
(* tabulated state leaves behind.  T is the table so far, D its states.      *)
RECURSIVE ScanClosure(_, _)
ScanClosure(D, T) ==
    With(ScanInputs(D) \ DOMAIN T, LAMBDA new :
    IF new = {} THEN T
    ELSE With(T @@ [k \in new |-> ScanOf(k[1], k[2], k[3])], LAMBDA T2 :
         ScanClosure(D \cup {[id |-> k[1].id, ic |-> T2[k].m.ic,
                              regs |-> T2[k].m.regs] : k \in new},
                     T2)))

ReadAllTable ==
    ScanClosure({KeyboardStartup([i \in 0..(MCP23017_NB_IC - 1) |-> FreeSlot], ResetRegs, f) :
                    f \in Faults \cup {ConfigFault}},
                << >>)

\* MATRIX_KEYBOARD_read_all_touchs(), read from the table where it is tabulated
ReadAll(initialized, d, cl, f) ==
    IF initialized /\ <<d, cl, f>> \in DOMAIN ReadAllTable
    THEN ReadAllTable[<<d, cl, f>>]
    ELSE MATRIX_KEYBOARD_read_all_touchs(Machine(d.ic, d.regs, cl, f), initialized, d.id)

\* main.c:95-137: everything main() does before its loop
Main_Startup ==
    /\ pc = "boot"
    /\ \E f \in Faults \cup {ConfigFault} :
          \E kb \in {KeyboardStartup(ic, regs, f)} :
              /\ midi_initialized' = TRUE
              /\ uart_tx' = MIDI_send_all_notes_off(TRUE, 1)
              /\ keyboard_chip_id' = kb.id
              /\ kb_initialized' = TRUE
              /\ ic' = kb.ic
              /\ regs' = kb.regs
              /\ fault' = f
    /\ keyboard_state' = ZeroKeyboard
    /\ call' = Call("startup", 0, 0, 0)
    /\ pc' = "loop"
    /\ sounding' = {}
    /\ UNCHANGED <<shift_wraps, raw_state, closed, run, prev_run, apiVars>>

\* main.c:226-243, with the scan period elapsed
Keyboard_MIDI_Process ==
    /\ pc = "loop"
    /\ \E cl \in SUBSET Switches, f \in ScanFaults(ic, keyboard_chip_id) :
          \E scan \in {ReadAll(kb_initialized,
                               [id |-> keyboard_chip_id, ic |-> ic, regs |-> regs],
                               cl, f)} :
          \E k \in {Update_Keyboard_State(keyboard_state, shift_wraps, scan.state)} :
              /\ raw_state' = scan.state
              /\ keyboard_state' = k
              /\ uart_tx' = Process_Key_Changes(midi_initialized, k, shift_wraps)
              /\ ic' = scan.m.ic
              /\ regs' = scan.m.regs
              /\ closed' = cl
              /\ fault' = f
              /\ run' = RunAfter(run, keyboard_state.stable_state,
                                 k.stable_state, scan.state)
              /\ prev_run' = run
              /\ sounding' = NotesAfter(sounding,
                                        Process_Key_Changes(midi_initialized, k, shift_wraps))
    /\ call' = Call("scan", 0, 0, 0)
    /\ UNCHANGED <<midi_initialized, pc, shift_wraps, kb_initialized, keyboard_chip_id,
                   apiVars>>

\* main.c:228-230, with the scan period not yet elapsed: nothing happens
Keyboard_MIDI_Idle ==
    /\ pc = "loop"
    /\ uart_tx' = << >>
    /\ call' = Call("idle", 0, 0, 0)
    /\ UNCHANGED <<midi_initialized, kbdVars, apiVars>>

-----------------------------------------------------------------------------
(* One call of read_all on the configured keyboard.                         *)

MaxScanKeys == 5    \* how many switches of SwitchSeq may be closed during the call

\* the switches that may be closed during the call
ScanSwitches ==
    {SwitchSeq[k] : k \in 1..(IF MaxScanKeys < Len(SwitchSeq) THEN MaxScanKeys
                                                              ELSE Len(SwitchSeq))}
\* port A output latch before the call: idle, as a sweep whose last write
\* failed leaves it, and two values setGPIO calls can leave
LatchSamples == {255, 127, 0, 165}
\* error_count of the keyboard's chip before the call
CountSamples == {0, 7}
\* the transactions of a sweep: the first restore of the columns, for each
\* column its eight writes and eight reads, the last restore
SweepTransactions == 2 * MATRIX_COLS + MATRIX_COLS * (2 * MATRIX_COLS + 8) + 2 * MATRIX_COLS
\* the faults of the call: none, or the last write of the sweep fails
SweepFaults == {NoFault, Glitch(SweepTransactions)}

Do_read_all ==
    /\ call.fn = "read_all"
    /\ ~ret.returned
    /\ \E scan \in {MATRIX_KEYBOARD_read_all_touchs(Machine(ic, regs, closed, fault),
                                                      kb_initialized, keyboard_chip_id)} :
          /\ ic' = scan.m.ic
          /\ regs' = scan.m.regs
          /\ bus' = scan.m.log
          /\ ret' = Returned(scan.state)
    /\ UNCHANGED <<midi_initialized, uart_tx, call, pc, shift_wraps, kb_initialized,
                   keyboard_chip_id, keyboard_state, raw_state, closed, fault,
                   run, prev_run, sounding, failed>>

-----------------------------------------------------------------------------
(* Specifications.                                                          *)

InitCommon ==
    /\ midi_initialized = FALSE
    /\ uart_tx = << >>
    /\ call = NoCall
    /\ pc = "boot"
    /\ ic = [i \in 0..(MCP23017_NB_IC - 1) |-> FreeSlot]
    /\ regs = ResetRegs
    /\ kb_initialized = FALSE
    /\ keyboard_chip_id = 0
    /\ keyboard_state = ZeroKeyboard
    /\ raw_state = {}
    /\ closed = {}
    /\ fault = NoFault
    /\ run = [i \in 0..31 |-> 0]
    /\ prev_run = [i \in 0..31 |-> 0]
    /\ sounding = {}
    /\ ret = NoValue
    /\ bus = << >>
    /\ failed = [i \in 0..(MCP23017_NB_IC - 1) |-> 0]

\* the controller: startup, then the scan loop
Init ==
    /\ InitCommon
    /\ shift_wraps \in BOOLEAN

Next ==
    \/ Main_Startup
    \/ Keyboard_MIDI_Process
    \/ Keyboard_MIDI_Idle

Spec == Init /\ [][Next]_vars

\* the encoder of midi.c on its own
InitMidi ==
    /\ InitCommon
    /\ shift_wraps = FALSE

NextMidi ==
    \/ MIDI_init
    \/ Do_note_on
    \/ Do_note_off
    \/ Do_control_change
    \/ Do_program_change
    \/ Do_pitch_bend
    \/ Do_all_notes_off
    \/ Do_send_raw

SpecMidi == InitMidi /\ [][NextMidi]_vars

\* the expander driver of stm32g4_mcp23017.c on its own
InitDriver ==
    /\ InitCommon
    /\ shift_wraps = FALSE

NextDriver ==
    \/ Drv_init
    \/ Drv_add
    \/ Drv_setIO
    \/ Drv_getIO
    \/ Drv_setGPIO
    \/ Drv_getGPIO
    \/ Drv_getGPIO_all_pins
    \/ Drv_setPullUp
    \/ Drv_getPullUp
    \/ Drv_getErrorCount
    \/ Drv_resetErrorCount

SpecDriver == InitDriver /\ [][NextDriver]_vars

\* the error counts the chip of SpecCounter starts with
CountStarts == {0, 254}

(* The driver with chip 0 registered on the expander and CountStarts failed  *)
(* transactions behind it: the state MCP23017_add(I2C1, 0) leaves, followed  *)
(* by that many register operations whose transaction failed.                *)
InitCounter ==
    /\ midi_initialized = FALSE
    /\ uart_tx = << >>
    /\ call = NoCall
    /\ pc = "boot"
    /\ shift_wraps = FALSE
    /\ \E n \in CountStarts :
          \E a \in {MCP23017_add(Machine([i \in 0..(MCP23017_NB_IC - 1) |-> FreeSlot],
                                         ResetRegs, {}, NoFault), "I2C1", 0)} :
              /\ ic = [a.m.ic EXCEPT ![a.id].error_count = n]
              /\ regs = a.m.regs
              /\ failed = [i \in 0..(MCP23017_NB_IC - 1) |-> IF i = a.id THEN n ELSE 0]
    /\ kb_initialized = FALSE
    /\ keyboard_chip_id = 0
    /\ keyboard_state = ZeroKeyboard
    /\ raw_state = {}
    /\ closed = {}
    /\ fault = NoFault
    /\ run = [i \in 0..31 |-> 0]
    /\ prev_run = [i \in 0..31 |-> 0]
    /\ sounding = {}
    /\ ret = NoValue
    /\ bus = << >>

NextCounter == NextDriver

SpecCounter == InitCounter /\ [][NextCounter]_vars

(* A setter about to be called on chip 0, registered on the expander, with   *)
(* the register it works on holding one of ByteSamples.                      *)
InitSetter ==
    /\ midi_initialized = FALSE
    /\ uart_tx = << >>
    /\ pc = "boot"
    /\ shift_wraps = FALSE
    /\ \E a \in RmwArgs, port \in PortArgs, pin \in MaskArgs, v \in ByteSamples :
          \E r \in {MCP23017_add(Machine([i \in 0..(MCP23017_NB_IC - 1) |-> FreeSlot],
                                         ResetRegs, {}, NoFault), "I2C1", 0)} :
              /\ call = DriverCall(a[1], r.id, "NULL", 0, port, pin, a[2])
              /\ ic = r.m.ic
              /\ regs = [r.m.regs EXCEPT ![TargetRegister(a[1], port)] = v]
    /\ kb_initialized = FALSE
    /\ keyboard_chip_id = 0
    /\ keyboard_state = ZeroKeyboard
    /\ raw_state = {}
    /\ closed = {}
    /\ fault = NoFault
    /\ run = [i \in 0..31 |-> 0]
    /\ prev_run = [i \in 0..31 |-> 0]
    /\ sounding = {}
    /\ ret = NoValue
    /\ bus = << >>
    /\ failed = [i \in 0..(MCP23017_NB_IC - 1) |-> 0]

NextSetter == Do_setter

SpecSetter == InitSetter /\ [][NextSetter]_vars

(* read_all about to be called after a startup without bus failure, with a   *)
(* set of switches closed, the column latch holding one of LatchSamples and  *)
(* the chip's error counter one of CountSamples.                             *)
InitScan ==
    /\ midi_initialized = TRUE
    /\ uart_tx = << >>
    /\ call = Call("read_all", 0, 0, 0)
    /\ pc = "loop"
    /\ shift_wraps = FALSE
    /\ \E v \in LatchSamples, n \in CountSamples :
          \E kb \in {KeyboardStartup([i \in 0..(MCP23017_NB_IC - 1) |-> FreeSlot],
                                      ResetRegs, NoFault)} :
              /\ keyboard_chip_id = kb.id
              /\ ic = [kb.ic EXCEPT ![kb.id].error_count = n]
              /\ regs = [kb.regs EXCEPT ![MPC23017_REGISTER_OLAT_A] = v]
              /\ failed = [i \in 0..(MCP23017_NB_IC - 1) |-> IF i = kb.id THEN n ELSE 0]
    /\ kb_initialized = TRUE
    /\ keyboard_state = ZeroKeyboard
    /\ raw_state = {}
    /\ closed \in SUBSET ScanSwitches
    /\ fault \in SweepFaults
    /\ run = [i \in 0..31 |-> 0]
    /\ prev_run = [i \in 0..31 |-> 0]
    /\ sounding = {}
    /\ ret = NoValue
    /\ bus = << >>

NextScan == Do_read_all

SpecScan == InitScan /\ [][NextScan]_vars

\* the note name parser of midi.c applied to one string
InitNote ==
    /\ midi_initialized = FALSE
    /\ uart_tx = << >>
    /\ \E note_name \in NoteNames : call = Call("note_name_to_number", 0, note_name, 0)
    /\ pc = "boot"
    /\ shift_wraps = FALSE
    /\ ic = [i \in 0..(MCP23017_NB_IC - 1) |-> FreeSlot]
    /\ regs = ResetRegs
    /\ kb_initialized = FALSE
    /\ keyboard_chip_id = 0
    /\ keyboard_state = ZeroKeyboard
    /\ raw_state = {}
    /\ closed = {}
    /\ fault = NoFault
    /\ run = [i \in 0..31 |-> 0]
    /\ prev_run = [i \in 0..31 |-> 0]
    /\ sounding = {}
    /\ ret = NoValue
    /\ bus = << >>
    /\ failed = [i \in 0..(MCP23017_NB_IC - 1) |-> 0]

NextNote == Do_note_name_to_number

SpecNote == InitNote /\ [][NextNote]_vars

-----------------------------------------------------------------------------
(* Properties of the scan loop (specification Spec).                        *)

\* the keys that have a bit in the 32-bit bitmaps
BitmapKeys == 0..31

\* key i's raw bit of the scan being taken differs from its stable bit
Disagrees(i) == (i \in raw_state') # (i \in keyboard_state.stable_state)

\* the scan being taken changes key i's stable bit
Flips(i) ==
    (i \in keyboard_state'.stable_state) # (i \in keyboard_state.stable_state)

\* the keys whose stable bit the last scan cycle changed
Changed ==
    (keyboard_state.current_state \ keyboard_state.previous_state)
    \cup (keyboard_state.previous_state \ keyboard_state.current_state)

(* C1: debounce rejects short bounces.  For every key of the bitmap, the    *)
(* first and the second cycle of a run of raw reads that disagree with the  *)
(* stable bit leave the stable bit as it is, and the agreeing cycle that    *)
(* ends a run of 1 or 2 such cycles leaves the stable bit as it is and the  *)
(* key's debounce counter at 0.                                             *)
C1_ShortBounceRejected ==
    [][call'.fn = "scan" =>
          \A i \in BitmapKeys :
             /\ (Disagrees(i) /\ run[i] + 1 \in 1..2) => ~Flips(i)
             /\ (~Disagrees(i) /\ run[i] \in 1..2) =>
                    /\ ~Flips(i)
                    /\ keyboard_state'.debounce_counter[i] = 0]_vars

\* a scan has just ended a two-cycle bounce of some key, whose stable bit
\* did not move while another key was confirmed in the same cycle
C1_Witness ==
    /\ call.fn = "scan"
    /\ \E i \in BitmapKeys :
          /\ prev_run[i] = 2
          /\ run[i] = 0
          /\ i \notin Changed
          /\ (i \in raw_state) = (i \in keyboard_state.stable_state)
          /\ keyboard_state.debounce_counter[i] = 0

(* C2: for every key of the bitmap, the third consecutive cycle whose raw   *)
(* bit is the opposite of the stable bit sets the stable bit to the raw     *)
(* value and the key's counter to 0, and a stable bit changes in no other   *)
(* cycle: not earlier in the key's own run, and not on account of another   *)
(* key's run.                                                               *)
C2_ThirdCycleFlips ==
    [][call'.fn = "scan" =>
          \A i \in BitmapKeys :
             /\ (Disagrees(i) /\ run[i] = 2) =>
                    /\ (i \in keyboard_state'.stable_state) = (i \in raw_state')
                    /\ keyboard_state'.debounce_counter[i] = 0
             /\ Flips(i) => (Disagrees(i) /\ run[i] = 2)]_vars

\* a scan has just confirmed some key at its third cycle while another key,
\* in the middle of its own run, kept its stable bit
C2_Witness ==
    /\ call.fn = "scan"
    /\ \E i, j \in BitmapKeys :
          /\ prev_run[i] = 2
          /\ i \in Changed
          /\ (i \in keyboard_state.stable_state) = (i \in raw_state)
          /\ keyboard_state.debounce_counter[i] = 0
          /\ run[j] \in 1..2
          /\ j \notin Changed

\* the three-byte messages of the last scan cycle that are for key i:
\* Note On if the key is now pressed, Note Off if it is now released
MessagesFor(i) ==
    {m \in 0..((Len(uart_tx) \div 3) - 1) :
        /\ uart_tx[3 * m + 1] =
              (IF i \in keyboard_state.current_state THEN MIDI_NOTE_ON
                                                     ELSE MIDI_NOTE_OFF)
        /\ uart_tx[3 * m + 2] = midi_notes[i + 1]}

ChipConfigured ==
    /\ keyboard_chip_id \in DOMAIN ic
    /\ ic[keyboard_chip_id].used
    /\ regs[MPC23017_REGISTER_IODIR_A] = 0
    /\ regs[MPC23017_REGISTER_IODIR_B] = 255
    /\ regs[MPC23017_REGISTER_GPPU_B] = 255

(* C4: with no bus failure and only the switch at row r, column c closed,   *)
(* r*8+c < 32, read_all returns the bitmap with exactly bit r*8+c set.      *)
C4_SingleKeySingleBit ==
    \A sw \in Switches :
        (/\ call.fn = "scan"
         /\ fault = NoFault
         /\ ChipConfigured
         /\ closed = {sw}
         /\ sw[1] * MATRIX_COLS + sw[2] < 32)
        => raw_state = {sw[1] * MATRIX_COLS + sw[2]}

(* C5: no failure makes a key look pressed.  A scan during which bus        *)
(* transactions fail reports no key that the same scan reports without the  *)
(* failure, and a scan of a chip that was never registered reports no key.  *)
C5_FailureReportsNoKey ==
    [][call'.fn = "scan" =>
          /\ fault' # NoFault =>
                raw_state' \subseteq
                    ReadAll(kb_initialized,
                            [id |-> keyboard_chip_id, ic |-> ic, regs |-> regs],
                            closed', NoFault).state
          /\ ~MCP23017_checkId([ic |-> ic], keyboard_chip_id) =>
                raw_state' = {}]_vars

-----------------------------------------------------------------------------
(* Properties of the encoder (specification SpecMidi).                      *)

MidiChannels == 1..16
DataBytes == 0..127
BendRange == (0 - 8192)..8191

\* the arguments of call c violate a range its encoder is documented with
OutOfRange(c) ==
    \/ /\ c.fn \in {"note_on", "note_off", "control_change"}
       /\ (c.channel \notin MidiChannels \/ c.data1 > 127 \/ c.data2 > 127)
    \/ /\ c.fn = "program_change"
       /\ (c.channel \notin MidiChannels \/ c.data1 > 127)
    \/ /\ c.fn = "all_notes_off"
       /\ c.channel \notin MidiChannels

(* C6: a call of note_on, note_off, control_change, program_change or       *)
(* all_notes_off with a channel outside 1..16 or with a note, controller,   *)
(* value, program or velocity above 127 hands no byte to the transport and  *)
(* leaves the module's state as it was.                                     *)
C6_OutOfRangeIsSilent ==
    [][OutOfRange(call') =>
          /\ uart_tx' = << >>
          /\ midi_initialized' = midi_initialized]_vars

\* an initialized encoder has just dropped note_on(17, ., .) and note 128
C6_Witness ==
    /\ midi_initialized
    /\ call.fn = "note_on"
    /\ (call.channel = 17 \/ call.data1 = 128)
    /\ OutOfRange(call)
    /\ uart_tx = << >>

C8_BendValueValidated ==
    (call.fn = "pitch_bend" /\ call.data1 \notin BendRange) => uart_tx = << >>

\* the arguments of call c are within the ranges its encoder is documented with
InRange(c) ==
    /\ c.channel \in MidiChannels
    /\ \/ c.fn = "note_on" /\ c.data1 \in DataBytes /\ c.data2 \in 1..127
       \/ c.fn \in {"note_off", "control_change"}
          /\ c.data1 \in DataBytes /\ c.data2 \in DataBytes
       \/ c.fn = "program_change" /\ c.data1 \in DataBytes
       \/ c.fn = "pitch_bend" /\ c.data1 \in BendRange

\* the status opcode of each encoder
Opcode(fn) ==
    CASE fn = "note_on" -> 144
      [] fn = "note_off" -> 128
      [] fn = "control_change" -> 176
      [] fn = "program_change" -> 192
      [] fn = "pitch_bend" -> 224

\* the bytes of the last operation are a well-formed message of call c
WellFormed(c) ==
    /\ Len(uart_tx) = (IF c.fn = "program_change" THEN 2 ELSE 3)
    /\ uart_tx[1] = Opcode(c.fn) + (c.channel - 1)
    /\ \A n \in 2..Len(uart_tx) : uart_tx[n] \in 0..127

(* C9 as stated: every in-range call emits status = opcode | (channel-1),   *)
(* data bytes with the top bit clear, 3 bytes (2 for program_change).       *)
C9_EveryInRangeCallEncodes ==
    InRange(call) => WellFormed(call)

(* C9: once the module is initialized, every in-range call emits status =   *)
(* opcode | (channel-1) with opcode 0x90, 0x80, 0xB0, 0xC0, 0xE0, data      *)
(* bytes with the top bit clear, 3 bytes (2 for program_change); before     *)
(* MIDI_init it emits nothing.                                              *)
C9_InitializedInRangeCallEncodes ==
    InRange(call) =>
        IF midi_initialized THEN WellFormed(call) ELSE uart_tx = << >>

\* program_change(16, 127) has just been emitted as two bytes
C9_Witness ==
    /\ midi_initialized
    /\ call.fn = "program_change"
    /\ call = Call("program_change", 16, 127, 0)
    /\ InRange(call)
    /\ uart_tx = <<207, 127>>

\* the last operation emitted the pitch bend message of channel ch, value v
BendEncoded(ch, v) ==
    /\ Len(uart_tx) = 3
    /\ uart_tx[1] = 224 + (ch - 1)
    /\ uart_tx[2] = (v + 8192) % 128
    /\ uart_tx[3] = (v + 8192) \div 128
    /\ uart_tx[3] * 128 + uart_tx[2] = v + 8192

(* C10 as stated: for channel in 1..16 and value in -8192..8191 pitch_bend  *)
(* emits 0xE0|(channel-1), then the low 7 bits, then the high 7 bits of     *)
(* value+8192.                                                              *)
C10_BendBytes ==
    (/\ call.fn = "pitch_bend"
     /\ call.channel \in MidiChannels
     /\ call.data1 \in BendRange)
    => BendEncoded(call.channel, call.data1)

(* C10: once the module is initialized, for channel in 1..16 and value in   *)
(* -8192..8191 pitch_bend emits 0xE0|(channel-1), then the low 7 bits, then *)
(* the high 7 bits of value+8192 (value 0 gives 0x00, 0x40); before         *)
(* MIDI_init it emits nothing.                                              *)
C10_InitializedBendBytes ==
    (/\ call.fn = "pitch_bend"
     /\ call.channel \in MidiChannels
     /\ call.data1 \in BendRange)
    => IF midi_initialized
       THEN /\ BendEncoded(call.channel, call.data1)
            /\ call.data1 = 0 => (uart_tx[2] = 0 /\ uart_tx[3] = 64)
       ELSE uart_tx = << >>

\* pitch_bend(16, 0) has just been emitted as the centre value
C10_Witness ==
    /\ midi_initialized
    /\ call.fn = "pitch_bend"
    /\ call = Call("pitch_bend", 16, 0, 0)
    /\ uart_tx = <<239, 0, 64>>

\* the bytes of the All Notes Off message of channel ch
AllNotesOffBytes(ch) ==
    IF ch \in MidiChannels THEN <<176 + (ch - 1), 123, 0>> ELSE << >>

(* C11 as stated: all_notes_off(channel) emits 0xB0|(channel-1), 123, 0 for *)
(* channel in 1..16 and nothing for any other channel.                      *)
C11_AllNotesOffBytes ==
    call.fn = "all_notes_off" => uart_tx = AllNotesOffBytes(call.channel)

(* C11: all_notes_off(channel) emits exactly the bytes that                 *)
(* control_change(channel, 123, 0) emits in the same module state: once the *)
(* module is initialized, 0xB0|(channel-1), 123, 0 for channel in 1..16 and *)
(* nothing for any other channel; before MIDI_init, nothing.                *)
C11_InitializedAllNotesOffBytes ==
    call.fn = "all_notes_off" =>
        /\ uart_tx = MIDI_send_control_change(midi_initialized, call.channel, 123, 0)
        /\ uart_tx = (IF midi_initialized THEN AllNotesOffBytes(call.channel)
                                          ELSE << >>)

\* all_notes_off(16) has just been emitted as controller 123 on channel 16
C11_Witness ==
    /\ midi_initialized
    /\ call.fn = "all_notes_off"
    /\ call.channel = 16
    /\ uart_tx = <<191, 123, 0>>

(* C15: send_raw(data, length) hands exactly the bytes data[0..length-1] to *)
(* the transport, each once, in index order and unmodified, when the module *)
(* is initialized, data is non-null and length > 0; when the module is not  *)
(* initialized, or data is null, or length is 0, it hands over no byte.     *)
C15_RawBytesInOrder ==
    call.fn = "send_raw" =>
        IF midi_initialized /\ ~call.data1.null /\ call.data2 > 0
        THEN /\ Len(uart_tx) = call.data2
             /\ \A i \in 1..call.data2 : uart_tx[i] = call.data1.bytes[i]
        ELSE uart_tx = << >>

\* the first two bytes of a three-byte buffer have just gone out in order
C15_Witness ==
    /\ midi_initialized
    /\ call.fn = "send_raw"
    /\ call.data1 = Buf(<<255, 0, 144>>)
    /\ call.data2 = 2
    /\ uart_tx = <<255, 0>>

-----------------------------------------------------------------------------
(* Properties of the note name parser (specification SpecNote).             *)

Letters == {"C", "D", "E", "F", "G", "A", "B"}
\* the letters that have a sharp, and those that have a flat
Sharpable == {"C", "D", "F", "G", "A"}
Flattable == {"D", "E", "G", "A", "B"}

\* semitones of each letter above C
SemitoneOf(letter) ==
    CASE letter = "C" -> 0 [] letter = "D" -> 2 [] letter = "E" -> 4
      [] letter = "F" -> 5 [] letter = "G" -> 7 [] letter = "A" -> 9
      [] letter = "B" -> 11

DigitChars == <<"0", "1", "2", "3", "4", "5", "6", "7", "8", "9">>

\* the string of letter, accidental ("" for none) and octave d
Name(letter, accidental, d) ==
    Buf(<<letter>> \o (IF accidental = "" THEN << >> ELSE <<accidental>>)
                  \o <<DigitChars[d + 1]>>)

\* the number the convention (octave+1)*12 + semitone gives, 255 above 127
NoteNumber(octave, semitone) ==
    IF (octave + 1) * 12 + semitone <= 127
    THEN (octave + 1) * 12 + semitone ELSE 255

(* C12: for every well-formed note name (letter C,D,E,F,G,A,B, optional '#' *)
(* on a letter that has a sharp, one octave digit 0..9) note_name_to_number *)
(* returns (octave+1)*12 + semitone when that is at most 127 and 255 when   *)
(* it exceeds 127; "C4" gives 60 and "A4" gives 69.                         *)
C12_WellFormedNameNumber ==
    ret.returned =>
        /\ \A letter \in Letters, d \in 0..9 :
              /\ call.data1 = Name(letter, "", d)
                    => ret.value = NoteNumber(d, SemitoneOf(letter))
              /\ (letter \in Sharpable /\ call.data1 = Name(letter, "#", d))
                    => ret.value = NoteNumber(d, SemitoneOf(letter) + 1)
        /\ call.data1 = Buf(<<"C", "4">>) => ret.value = 60
        /\ call.data1 = Buf(<<"A", "4">>) => ret.value = 69

\* "G#9" has just been converted: its number 128 exceeds 127
C12_Witness ==
    /\ ret.returned
    /\ call.data1 = Buf(<<"G", "#", "9">>)
    /\ NoteNumber(9, SemitoneOf("G") + 1) = 255
    /\ ret.value = 255

\* the letter whose sharp is the flat of letter
LetterBelow(letter) ==
    CASE letter = "D" -> "C" [] letter = "E" -> "D" [] letter = "G" -> "F"
      [] letter = "A" -> "G" [] letter = "B" -> "A"

(* C13: flat normalization.  For every octave digit d, note_name_to_number  *)
(* gives for "Db"d, "Eb"d, "Gb"d, "Ab"d, "Bb"d what it gives for "C#"d,     *)
(* "D#"d, "F#"d, "G#"d, "A#"d, and returns 255 for "Cb"d and "Fb"d.         *)
C13_FlatIsSharpBelow ==
    ret.returned =>
        \A d \in 0..9 :
            /\ \A letter \in Flattable :
                  call.data1 = Name(letter, "b", d) =>
                      ret.value = MIDI_note_name_to_number(
                                      Name(LetterBelow(letter), "#", d))
            /\ \A letter \in {"C", "F"} :
                  call.data1 = Name(letter, "b", d) => ret.value = 255

\* "Db5" has just been converted to 73, the number of "C#5"
C13_Witness ==
    /\ ret.returned
    /\ call.data1 = Buf(<<"D", "b", "5">>)
    /\ ret.value = 73
    /\ MIDI_note_name_to_number(Buf(<<"C", "#", "5">>)) = 73

\* str is exactly a note letter, an optional accidental the letter has, and
\* one octave digit
ValidName(str) ==
    \E letter \in Letters, d \in 0..9 :
        \/ str = Name(letter, "", d)
        \/ letter \in Sharpable /\ str = Name(letter, "#", d)
        \/ letter \in Flattable /\ str = Name(letter, "b", d)

(* C14: note_name_to_number returns 255 for every string that is not        *)
(* exactly a note letter, an optional '#'/'b' accidental and one octave     *)
(* digit: the empty string, a letter with no octave, an unknown or          *)
(* lowercase letter, a sharp on a letter that has none, a non-digit octave, *)
(* and any string with extra characters after the octave digit.             *)
C14_InvalidNameIs255 ==
    (ret.returned /\ ~ValidName(call.data1)) => ret.value = 255

-----------------------------------------------------------------------------
(* Properties of the expander driver (specification SpecDriver).            *)

\* the slots of table i that are in use
InUse(i) == {id \in DOMAIN i : i[id].used}

\* the slot MCP23017_add tries on table i: the lowest one that is free
FirstFree(i) == CHOOSE id \in DOMAIN i \ InUse(i) : \A o \in DOMAIN i \ InUse(i) : id <= o

\* the call being made is add and is rejected before it tries a slot
AddRejected ==
    /\ call'.fn = "add"
    /\ (call'.address > 7 \/ InUse(ic) = DOMAIN ic)

(* C16: add has no side effects on rejection.  When hardware_address > 7,   *)
(* or when every chip slot is already in use, add returns the ERROR handle, *)
(* performs no bus transaction, and leaves every slot's in-use flag,        *)
(* address, bus handle and error counter (and the device) unchanged.        *)
C16_RejectedAddChangesNothing ==
    [][AddRejected =>
          /\ ret'.value = MCP23017_ID_ERROR
          /\ bus' = << >>
          /\ ic' = ic
          /\ regs' = regs]_vars

\* add(I2C1, 0) has just been rejected with both slots in use, one of them
\* with a counted error
C16_Witness ==
    /\ call.fn = "add"
    /\ call.address = 0
    /\ InUse(ic) = DOMAIN ic
    /\ \E id \in DOMAIN ic : ic[id].error_count > 0
    /\ ret.value = MCP23017_ID_ERROR
    /\ bus = << >>

\* the call being made is add and it tries a slot
AddTries ==
    /\ call'.fn = "add"
    /\ call'.address <= 7
    /\ InUse(ic) # DOMAIN ic

\* a step of the initialization sequence of the call being made has failed
StepFailed ==
    \/ fault'.kind = "config"
    \/ \E k \in 1..Len(bus') : ~bus'[k].ok

(* C17: if any step of add's initialization sequence fails (the bus         *)
(* configuration, the test read, a register write, a read-back read), add   *)
(* returns the ERROR handle, no later step is executed, the set of in-use   *)
(* slots is what it was before the call, and the slot it tried is again the *)
(* one the next add tries: an add that succeeds returns the lowest free     *)
(* slot, and a failed add leaves the lowest free slot where it was.         *)
C17_FailedAddFreesSlot ==
    [][AddTries =>
          /\ StepFailed =>
                /\ ret'.value = MCP23017_ID_ERROR
                /\ fault'.kind = "config" => bus' = << >>
                /\ \A k \in 1..Len(bus') : ~bus'[k].ok => k = Len(bus')
          /\ ret'.value = MCP23017_ID_ERROR =>
                /\ InUse(ic') = InUse(ic)
                /\ FirstFree(ic') = FirstFree(ic)
          /\ ret'.value # MCP23017_ID_ERROR =>
                /\ ret'.value = FirstFree(ic)
                /\ InUse(ic') = InUse(ic) \cup {FirstFree(ic)}]_vars

\* add has just failed at its seventh transaction while trying slot 1, with
\* slot 0 in use: the six earlier steps succeeded, slot 1 is free again
C17_Witness ==
    /\ call.fn = "add"
    /\ fault = Glitch(7)
    /\ ret.value = MCP23017_ID_ERROR
    /\ Len(bus) = 7
    /\ ~bus[7].ok
    /\ \A k \in 1..6 : bus[k].ok
    /\ InUse(ic) = {0}

(* C18 as stated: a device that returns a different value for the direction *)
(* register of port A or B or for the pull-up register of port A or B makes *)
(* add return ERROR.                                                        *)
C18_ReadBackAllFour ==
    (call.fn = "add" /\ fault.kind = "misread")
        => ret.value = MCP23017_ID_ERROR

\* the three registers the verification reads back
VerifiedRegisters ==
    {MPC23017_REGISTER_IODIR_A, MPC23017_REGISTER_IODIR_B, MPC23017_REGISTER_GPPU_B}

(* C18: add succeeds only if the post-init read-back matches what was       *)
(* written for the direction register of port A (0x00) and port B (0xFF)    *)
(* and the pull-up register of port B (0xFF); a device that returns a       *)
(* different value for any of these three makes add return ERROR and free   *)
(* the slot.  The pull-up register of port A is written but not read back:  *)
(* a device that returns a different value for it is registered.            *)
C18_ReadBackThree ==
    [][AddTries =>
          /\ (fault'.kind = "misread" /\ fault'.at \in VerifiedRegisters) =>
                /\ ret'.value = MCP23017_ID_ERROR
                /\ InUse(ic') = InUse(ic)
                /\ Len(bus') = 13
                /\ \A k \in 1..13 : bus'[k].ok
          /\ fault' = Misread(MPC23017_REGISTER_GPPU_A) =>
                /\ ret'.value = FirstFree(ic)
                /\ ret'.value \in InUse(ic')
          /\ ret'.value # MCP23017_ID_ERROR =>
                ~(fault'.kind = "misread" /\ fault'.at \in VerifiedRegisters)]_vars

\* add has just failed on a device that answers the read-back of the
\* pull-up register of port B with a value other than 0xFF
C18_Witness ==
    /\ call.fn = "add"
    /\ fault = Misread(MPC23017_REGISTER_GPPU_B)
    /\ regs[MPC23017_REGISTER_GPPU_B] = 255
    /\ ret.value = MCP23017_ID_ERROR
    /\ Len(bus) = 13
    /\ InUse(ic) = {}

\* the transactions of add in their order: <<operation, register, value>>
ExpectedInit ==
    << <<"R", 0, 0>>,
       <<"W", 0, 0>>, <<"W", 1, 255>>, <<"W", 13, 255>>, <<"W", 12, 0>>,
       <<"W", 20, 255>>, <<"W", 10, 0>>, <<"W", 11, 0>>, <<"W", 4, 0>>,
       <<"W", 5, 0>> >>

(* C19: a successful add has issued, in this order and each only after all  *)
(* earlier steps succeeded: a test read, then writes direction A = 0x00,    *)
(* direction B = 0xFF, pull-up B = 0xFF, pull-up A = 0x00, output-latch A = *)
(* 0xFF, IO-configuration A and B = 0x00, interrupt-enable A and B = 0x00;  *)
(* right after it port A is all outputs, latched high, without pull-ups and *)
(* port B is all inputs with pull-ups.  An add that fails has issued a      *)
(* prefix of that order, every step but its last one successful.            *)
C19_InitOrder ==
    call.fn = "add" =>
        /\ \A k \in 1..Len(bus) :
              /\ k <= Len(ExpectedInit) =>
                    <<bus[k].op, bus[k].reg, bus[k].val>> = ExpectedInit[k]
              /\ \A j \in 1..(k - 1) : bus[j].ok
        /\ ret.value # MCP23017_ID_ERROR =>
              /\ Len(bus) >= Len(ExpectedInit)
              /\ \A k \in 1..Len(ExpectedInit) : bus[k].ok
              /\ regs[MPC23017_REGISTER_IODIR_A] = 0
              /\ regs[MPC23017_REGISTER_OLAT_A] = 255
              /\ regs[MPC23017_REGISTER_GPPU_A] = 0
              /\ regs[MPC23017_REGISTER_IODIR_B] = 255
              /\ regs[MPC23017_REGISTER_GPPU_B] = 255

\* add has just registered slot 1 next to slot 0 with all thirteen
\* transactions: the device holds the configuration
C19_Witness ==
    /\ call.fn = "add"
    /\ ret.value = 1
    /\ fault = NoFault
    /\ Len(bus) = 13
    /\ regs[MPC23017_REGISTER_OLAT_A] = 255
    /\ InUse(ic) = {0, 1}

\* the register operations of the driver
RegisterOps ==
    {"setIO", "getIO", "setGPIO", "getGPIO", "getGPIO_all_pins",
     "setPullUp", "getPullUp", "resetErrorCount"}

(* C20: every register operation (set_direction, get_direction, set_output, *)
(* get_input, get_port, set_pullup, get_pullup, reset_error_count) called   *)
(* with a chip_id that is out of range or not in use returns false,         *)
(* performs no bus transaction, and changes no error counter or other slot  *)
(* state (nor the device).                                                  *)
C20_InvalidIdIsRefused ==
    [][(call'.fn \in RegisterOps /\ call'.id \notin InUse(ic)) =>
          /\ ret'.value = FALSE
          /\ bus' = << >>
          /\ ic' = ic
          /\ regs' = regs]_vars

\* setGPIO on the free slot 1 has just been refused while slot 0 is in use
\* with a counted error
C20_Witness ==
    /\ call.fn = "setGPIO"
    /\ call.id = 1
    /\ InUse(ic) = {0}
    /\ ic[0].error_count = 1
    /\ ret.value = FALSE
    /\ bus = << >>

-----------------------------------------------------------------------------
(* Properties of the error counter (specification SpecCounter).             *)

\* the read-modify-write operations
RmwOps == {"setIO", "setGPIO", "setPullUp"}

\* the call being made is a read-modify-write on a chip that is in use
RmwCall == call'.fn \in RmwOps /\ call'.id \in InUse(ic)

\* the transactions of the call being made: its read failed; its write failed
ReadFailed == Len(bus') >= 1 /\ bus'[1].op = "R" /\ ~bus'[1].ok
WriteFailed == Len(bus') >= 2 /\ bus'[2].op = "W" /\ ~bus'[2].ok

\* what the call being made did besides counting: nothing after a failed
\* read, false after a failed write, one read and one write on success, and
\* nothing to the counters of the other chips
RmwOutcome ==
    /\ ReadFailed => (Len(bus') = 1 /\ regs' = regs /\ ret'.value = FALSE)
    /\ WriteFailed => ret'.value = FALSE
    /\ ret'.value = (~ReadFailed /\ ~WriteFailed)
    /\ ret'.value = TRUE =>
          /\ ic'[call'.id].error_count = ic[call'.id].error_count
          /\ Len(bus') = 2
          /\ bus'[1].op = "R" /\ bus'[2].op = "W"
          /\ bus'[1].reg = bus'[2].reg
    /\ \A o \in DOMAIN ic \ {call'.id} : ic'[o] = ic[o]

C23_CountIsFailures ==
    /\ call.fn = "getErrorCount" =>
          /\ (ret.value = 255) <=> (call.id \notin InUse(ic))
          /\ call.id \in InUse(ic) => ret.value = failed[call.id]
    /\ (call.fn = "resetErrorCount" /\ call.id \in InUse(ic)) =>
          ic[call.id].error_count = 0

-----------------------------------------------------------------------------
(* Properties of one read-modify-write (specification SpecSetter).          *)

\* the value a setter's argument stands for in the register: 1 for INPUT
\* and HIGH, 0 for OUTPUT and LOW
LevelBit(arg) == IF arg \in {"INPUT", "HIGH"} THEN 1 ELSE 0

(* C22: a successful set_output(chip, port, pin_mask, level) sets exactly   *)
(* the bits of that port's output-latch register selected by pin_mask to    *)
(* level and leaves every other bit of that register and every other        *)
(* register of the device unchanged; the same holds for set_direction on    *)
(* the direction register and set_pullup on the pull-up register.           *)
C22_OnlySelectedBits ==
    [][(call.fn \in RmwOps /\ ret'.value = TRUE) =>
          \A reg \in Registers :
              IF reg = TargetRegister(call.fn, call.port)
              THEN \A k \in 0..7 :
                      Bit(regs'[reg], k) =
                          IF Bit(call.pin, k) = 1 THEN LevelBit(call.arg)
                                                  ELSE Bit(regs[reg], k)
              ELSE regs'[reg] = regs[reg]]_vars

\* setGPIO(0, A, 0x81, LOW) has just succeeded on a latch that held 0xA5:
\* it holds 0x24
C22_Witness ==
    /\ call.fn = "setGPIO"
    /\ call.port = "A"
    /\ call.pin = 129
    /\ call.arg = "LOW"
    /\ ret.returned
    /\ ret.value = TRUE
    /\ Len(bus) = 2
    /\ regs[MPC23017_REGISTER_OLAT_A] = 36

-----------------------------------------------------------------------------
(* Properties of one call of read_all (specification SpecScan).             *)

\* read_all has returned and every transaction it issued succeeded
SweptWithoutFailure ==
    /\ call.fn = "read_all"
    /\ ret.returned
    /\ bus # << >>
    /\ \A k \in 1..Len(bus) : bus[k].ok

(* C24: when read_all returns after a sweep with no bus failure, every      *)
(* column output is back at idle-high (port A output latch = 0xFF),         *)
(* whatever the latch held before the call.                                 *)
C24_ColumnsIdleAfterSweep ==
    SweptWithoutFailure => regs[MPC23017_REGISTER_OLAT_A] = 255

\* read_all has returned from a sweep without failure that found the latch
\* at 0x00 (its first write is that of 0x01) and left it at 0xFF
C24_Witness ==
    /\ SweptWithoutFailure
    /\ Len(bus) = SweepTransactions
    /\ bus[2] = Transaction("W", MPC23017_REGISTER_OLAT_A, 1, TRUE)
    /\ regs[MPC23017_REGISTER_OLAT_A] = 255

\* read_all with the switches cl closed, called right after a startup
\* without bus failure: idle latch, no counted error
ReferenceScan(cl) ==
    With(KeyboardStartup([i \in 0..(MCP23017_NB_IC - 1) |-> FreeSlot], ResetRegs, NoFault),
         LAMBDA kb :
            MATRIX_KEYBOARD_read_all_touchs(Machine(kb.ic, kb.regs, cl, NoFault),
                                            TRUE, kb.id).state)

(* C27: scan determinism.  Two read_all calls made against the same fixed   *)
(* matrix response (same set of closed keys, no bus failure) return the     *)
(* same 32-bit bitmap, independent of the output-latch contents left by     *)
(* earlier calls and of the error counters: every call returns what the     *)
(* call made with an idle latch and no counted error returns.               *)
C27_ScanDeterministic ==
    SweptWithoutFailure => ret.value = ReferenceScan(closed)

\* read_all has returned from a sweep without failure that found the latch
\* at 0x00 and seven counted errors, with the switch at row 0, column 1
\* closed: it reports what it reports from an idle latch
C27_Witness ==
    /\ SweptWithoutFailure
    /\ closed = {<<0, 1>>}
    /\ bus[2] = Transaction("W", MPC23017_REGISTER_OLAT_A, 1, TRUE)
    /\ ic[keyboard_chip_id].error_count = 7
    /\ ret.value = ReferenceScan({<<0, 1>>})
    /\ ret.value # ReferenceScan({})

\* a transaction of the log is a write of the column latch, a read of the rows
IsLatchWrite(t) == t.op = "W" /\ t.reg = MPC23017_REGISTER_OLAT_A
IsRowRead(t) == t.op = "R" /\ t.reg = MPC23017_REGISTER_GPIO_B

\* the column latch when transaction k is issued: the value of the last
\* write of the latch before it
LatchAt(k) ==
    bus[CHOOSE j \in 1..(k - 1) :
            IsLatchWrite(bus[j]) /\ \A o \in (j + 1)..(k - 1) : ~IsLatchWrite(bus[o])].val

\* the column latch at each read of the rows, in the order of the reads
LatchesAtReads ==
    With(SelectSeq([k \in 1..Len(bus) |-> [at |-> k, t |-> bus[k]]],
                   LAMBDA e : IsRowRead(e.t)),
         LAMBDA r : [n \in 1..Len(r) |-> LatchAt(r[n].at)])

\* the latch value that pulls column c low and no other
Strobe(c) == 255 - 2 ^ c

\* the values of seq without those equal to their predecessor
Changes(seq) ==
    With(SelectSeq([n \in 1..Len(seq) |->
                       [val |-> seq[n], new |-> (n = 1 \/ seq[n] # seq[n - 1])]],
                   LAMBDA e : e.new),
         LAMBDA c : [n \in 1..Len(c) |-> c[n].val])

\* the values the column latch takes from the first strobe on: the values
\* written after the eight writes of the first restore
LatchCourse ==
    With(SelectSeq(bus, IsLatchWrite), LAMBDA w :
         Changes([n \in 1..(Len(w) - MATRIX_COLS) |-> w[n + MATRIX_COLS].val]))

\* column 0 low, idle, column 1 low, idle, ..., column 7 low, idle
StrobeCourse ==
    [n \in 1..(2 * MATRIX_COLS) |-> IF n % 2 = 1 THEN Strobe((n - 1) \div 2) ELSE 255]

(* C28: in every read_all call with no bus failure, columns are strobed in  *)
(* the order 0,1,...,7, each exactly once per call regardless of earlier    *)
(* results, and at the moment the rows are sampled for column c the port A  *)
(* output latch has bit c low and all seven other column bits high.         *)
C28_StrobeOrder ==
    SweptWithoutFailure =>
        /\ LatchCourse = StrobeCourse
        /\ With(LatchesAtReads, LAMBDA at :
              \* every sample is taken with exactly one column low, every
              \* column is sampled, and the samples follow the columns' order
              /\ \A n \in 1..Len(at) : \E c \in 0..(MATRIX_COLS - 1) : at[n] = Strobe(c)
              /\ \A c \in 0..(MATRIX_COLS - 1) : \E n \in 1..Len(at) : at[n] = Strobe(c)
              /\ \A n \in 1..(Len(at) - 1) : at[n] >= at[n + 1])

\* read_all has returned from a sweep without failure, with the switch at
\* row 0, column 1 closed and reported in column 1: the sweep went on to
\* sample column 7 with the latch at 0x7F
C28_Witness ==
    /\ SweptWithoutFailure
    /\ closed = {<<0, 1>>}
    /\ 9 \in ret.value
    /\ LatchCourse = StrobeCourse
    /\ With(LatchesAtReads, LAMBDA at : at[1] = 254 /\ at[Len(at)] = 127)

(* C29 as stated: for each strobed column, read_all samples the eight row   *)
(* inputs with exactly one read of the port B value register, so the eight  *)
(* row bits used for that column all come from the same device sample.      *)
C29_OneReadPerColumn ==
    SweptWithoutFailure =>
        With(LatchesAtReads, LAMBDA at :
            \A c \in 0..(MATRIX_COLS - 1) :
                Cardinality({n \in 1..Len(at) : at[n] = Strobe(c)}) = 1)

-----------------------------------------------------------------------------
(* Properties of the scan loop, continued (specification Spec).             *)

\* the key indexes that have no bit in the 32-bit bitmaps
UpperKeys == 32..(MAX_MATRIX_KEYS - 1)

\* the messages of uart_tx, three bytes each, numbered from 0
MessageCount == Len(uart_tx) \div 3
MessageNote(m) == uart_tx[3 * m + 2]

\* the key whose note is n
KeyOfNote(n) == CHOOSE i \in 0..(MAX_MATRIX_KEYS - 1) : midi_notes[i + 1] = n

C26_AscendingKeyOrder ==
    call.fn = "scan" =>
        /\ Len(uart_tx) = 3 * MessageCount
        /\ \A m \in 0..(MessageCount - 1) :
              /\ uart_tx[3 * m + 1] \in {MIDI_NOTE_ON, MIDI_NOTE_OFF}
              /\ \E i \in 0..(MAX_MATRIX_KEYS - 1) : MessageNote(m) = midi_notes[i + 1]
              /\ uart_tx[3 * m + 3] = (IF uart_tx[3 * m + 1] = MIDI_NOTE_ON THEN 100 ELSE 0)
        /\ \A m \in 0..(MessageCount - 2) :
              KeyOfNote(MessageNote(m)) < KeyOfNote(MessageNote(m + 1))

\* a scan cycle has just flipped the stable bits of keys 0 and 1 (and more)
\* and their Note On messages went out in that order
C26_Witness ==
    /\ call.fn = "scan"
    /\ MessageCount >= 2
    /\ {0, 1} \subseteq keyboard_state.current_state \ keyboard_state.previous_state
    /\ SubSeq(uart_tx, 1, 6) = <<MIDI_NOTE_ON, midi_notes[1], 100,
                                 MIDI_NOTE_ON, midi_notes[2], 100>>


\* the notes of the three-byte messages of bytes
NotesOf(bytes) == {bytes[3 * m + 2] : m \in 0..((Len(bytes) \div 3) - 1)}

\* the keys whose outcome is compared: the corners of the bitmap, keys of
\* rows 0 and 1, and keys beyond the bitmap
IndependenceKeys == {0, 1, 8, 9, 31, 32, 33, 40, 63}

\* the keyboard state that agrees with k on key i's stable bit and counter
\* and has every other key released with its counter at zero
AloneState(k, i) ==
    [ZeroKeyboard EXCEPT !.stable_state = k.stable_state \cap {i},
                         !.debounce_counter[i] = k.debounce_counter[i]]

\* what one cycle (main.c:236-239) on state k and bitmap raw makes of key i:
\* its stable bit, its counter, whether a message carries its note
KeyOutcome(init, wraps, k, raw, i) ==
    With(Update_Keyboard_State(k, wraps, raw), LAMBDA k2 :
         [stable |-> i \in k2.stable_state,
          counter |-> k2.debounce_counter[i],
          event |-> midi_notes[i + 1] \in NotesOf(Process_Key_Changes(init, k2, wraps))])

MessageBytes(m) == SubSeq(uart_tx, 3 * m + 1, 3 * m + 3)

\* the message main.c:286-293 asks for when key i has flipped to pressed
KeyEvent(i, pressed) ==
    IF pressed THEN <<144, 48 + i, 100>> ELSE <<128, 48 + i, 0>>

(* C31: the event emitted for a flipped key i always passes the encoder's   *)
(* validation and is exactly the 3 bytes 0x90, midi_notes[i] = 48+i, 100    *)
(* for a press and 0x80, 48+i, 0 for a release: once MIDI is initialized,   *)
(* every message of a cycle is such an event of some key, whole, and every  *)
(* flipped key has its event among them; none is dropped by the encoder.    *)
C31_KeyEventBytes ==
    (call.fn = "scan" /\ midi_initialized) =>
        /\ Len(uart_tx) = 3 * MessageCount
        /\ \A m \in 0..(MessageCount - 1) :
              \E i \in 0..(MAX_MATRIX_KEYS - 1), pressed \in BOOLEAN :
                  MessageBytes(m) = KeyEvent(i, pressed)
        /\ \A i \in Changed :
              /\ midi_notes[i + 1] = 48 + i
              /\ \E m \in 0..(MessageCount - 1) :
                    MessageBytes(m) = KeyEvent(i, i \in keyboard_state.current_state)

\* a cycle has just released key 8 while the keys of row 0 stay pressed: its
\* Note Off is the first message
C31_Witness ==
    /\ call.fn = "scan"
    /\ midi_initialized
    /\ 8 \in keyboard_state.previous_state \ keyboard_state.current_state
    /\ MessageCount >= 1
    /\ MessageBytes(0) = <<128, 56, 0>>


(* C32: after every completed call of Update_Keyboard_State every           *)
(* debounce_counter[i] is in {0,1,2} (it never reaches or stays at the      *)
(* threshold 3), current_state equals stable_state, previous_state equals   *)
(* the stable_state held when the call began, and every key whose stable    *)
(* bit differs from previous_state has counter 0.                           *)
C32_StateAfterUpdate ==
    [][(pc = "loop" /\ call'.fn = "scan") =>
          /\ \A i \in 0..(MAX_MATRIX_KEYS - 1) :
                keyboard_state'.debounce_counter[i] \in 0..(DEBOUNCE_COUNT - 1)
          /\ keyboard_state'.current_state = keyboard_state'.stable_state
          /\ keyboard_state'.previous_state = keyboard_state.stable_state
          /\ \A i \in BitmapKeys :
                Flips(i) => keyboard_state'.debounce_counter[i] = 0]_vars

\* a cycle has just confirmed a key while another key is in the middle of
\* its run with its counter at 2
C32_Witness ==
    /\ call.fn = "scan"
    /\ Changed # {}
    /\ keyboard_state.current_state = keyboard_state.stable_state
    /\ \A i \in Changed : keyboard_state.debounce_counter[i] = 0
    /\ \E j \in BitmapKeys : keyboard_state.debounce_counter[j] = 2


AtMostOneLow(v) == v = 255 \/ \E c \in 0..(MATRIX_COLS - 1) : v = Strobe(c)

(* C34 as stated: during a read_all call with no bus failure, at every      *)
(* point between two bus writes (not only when rows are sampled) at most    *)
(* one column output is low.                                                *)
C34_AtMostOneColumnLow ==
    SweptWithoutFailure =>
        With(SelectSeq(bus, IsLatchWrite), LAMBDA w :
             \A n \in 1..Len(w) : AtMostOneLow(w[n].val))

(* C34, amended: during a read_all call with no bus failure that finds at   *)
(* most one column output low, at every point between two bus writes at     *)
(* most one column output is low: when moving from column c-1 to column c   *)
(* the previous column is driven high before the next is driven low.        *)
(* Whatever the latch held before the call, this holds from the last write  *)
(* of the first restore on.                                                 *)
C34_AtMostOneColumnLowFromIdle ==
    [][(/\ call.fn = "read_all"
        /\ ~ret.returned
        /\ ret'.returned
        /\ bus' # << >>
        /\ \A k \in 1..Len(bus') : bus'[k].ok) =>
          With(SelectSeq(bus', IsLatchWrite), LAMBDA w :
               \A n \in 1..Len(w) :
                   (n >= MATRIX_COLS \/ AtMostOneLow(regs[MPC23017_REGISTER_OLAT_A]))
                       => AtMostOneLow(w[n].val))]_vars

\* read_all has returned from a sweep without failure that found column 7
\* low (its first write leaves the latch at 0x7F), and went from column 0
\* to column 1 through the idle latch
C34_Witness ==
    /\ SweptWithoutFailure
    /\ bus[2] = Transaction("W", MPC23017_REGISTER_OLAT_A, 127, TRUE)
    /\ With(SelectSeq(bus, IsLatchWrite), LAMBDA w :
            /\ w[MATRIX_COLS].val = 255
            /\ \E n \in (MATRIX_COLS + 1)..(Len(w) - 2) :
                  /\ w[n].val = Strobe(0)
                  /\ w[n + 1].val = 255
                  /\ w[n + 2].val = Strobe(1))


-----------------------------------------------------------------------------
(* Properties of the driver, continued (specification SpecDriver).          *)

\* the slots of S are the indices 0..k-1 for some k
IsPrefix(S) == S = 0..(Cardinality(S) - 1)

(* C35: after init and any sequence of add calls (successful or failed),    *)
(* the in-use slots are exactly the indices 0..k-1 for some k; each         *)
(* successful add returns k, the lowest free index, so handles returned by  *)
(* successful adds are pairwise distinct, handles returned earlier stay in  *)
(* use, and the bus address stored for hardware address h in 0..7 is        *)
(* 0x40 + 2*h (distinct for distinct h).                                    *)
C35_HandlesArePrefix ==
    [][/\ IsPrefix(InUse(ic'))
       /\ call'.fn = "add" =>
             /\ InUse(ic) \subseteq InUse(ic')
             /\ ret'.value # MCP23017_ID_ERROR =>
                   /\ ret'.value = Cardinality(InUse(ic))
                   /\ ret'.value \notin InUse(ic)
                   /\ InUse(ic') = InUse(ic) \cup {ret'.value}
                   /\ ic'[ret'.value].address = 64 + 2 * call'.address
             /\ ret'.value = MCP23017_ID_ERROR => InUse(ic') = InUse(ic)
             /\ AddTries =>
                   /\ call'.address \in 0..7
                   /\ ic'[FirstFree(ic)].address = 64 + 2 * call'.address
             /\ \A h \in 0..7 : ChipAddress(h) = 64 + 2 * h]_vars

\* the second successful add has just returned handle 1 while handle 0,
\* returned earlier, stays in use
C35_Witness ==
    /\ call.fn = "add"
    /\ ret.value = 1
    /\ InUse(ic) = {0, 1}
    /\ ic[0].address = 64
    /\ ic[1].address = 64


-----------------------------------------------------------------------------
(* Properties of the encoder, continued (specification SpecMidi).           *)

\* the 14-bit value a pitch bend message carries: second data byte * 128 +
\* first data byte
Bend14(bytes) == bytes[3] * 128 + bytes[2]

(* C36 as stated: for channel in 1..16 the 14-bit value encoded by          *)
(* pitch_bend is a non-decreasing function of the input over the whole      *)
(* 16-bit signed range: inputs above +8191 encode as the maximum 16383 and  *)
(* inputs below -8192 encode as the minimum 0.                              *)
C36_BendMonotone ==
    (call.fn = "pitch_bend" /\ call.channel \in MidiChannels /\ midi_initialized) =>
        /\ Len(uart_tx) = 3
        /\ \A v \in BendArgs :
              v <= call.data1 =>
                  Bend14(MIDI_send_pitch_bend(TRUE, call.channel, v)) <= Bend14(uart_tx)
        /\ call.data1 > 8191 => Bend14(uart_tx) = 16383
        /\ call.data1 < 0 - 8192 => Bend14(uart_tx) = 0


\* the number of data bytes that follow status byte s (midi.h:23-29): one
\* after program change, two after the other channel messages
DataCount(s) == IF s \div 16 = MIDI_PROGRAM_CHANGE \div 16 THEN 1 ELSE 2

\* bytes is one complete message: a status byte followed by its full count
\* of data bytes
CompleteMessage(bytes) ==
    /\ Len(bytes) >= 1
    /\ bytes[1] \in 128..255
    /\ Len(bytes) = 1 + DataCount(bytes[1])
    /\ \A n \in 2..Len(bytes) : bytes[n] \in 0..127

=============================================================================
